---- MODULE Spec2Model ----
(***************************************************************************)
(* A model of the evalfilter bytecode virtual machine (vm/vm.go), of the   *)
(* built-in functions it calls (environment/builtins.go) and of the value  *)
(* model those operate on.                                                 *)
(*                                                                         *)
(* Conventions                                                             *)
(*   - A Go string is a sequence of bytes (numbers 0..255).                *)
(*   - A Go float64 is an exact rational n/d (d > 0, lowest terms).        *)
(*     Results that are not rational (NaN, +-Inf, irrational roots) lie    *)
(*     outside the model: a step that would produce one is not taken.      *)
(*   - A Go int64 is an integer; a step whose integer result leaves        *)
(*     -ModelIntLimit..ModelIntLimit is not taken.                         *)
(*   - An object.Object is a record of one shape (MkVal); "ptr" is the     *)
(*     identity of the pointer: one of the three package-level objects     *)
(*     True, False, Null of vm.go, or "heap" for a fresh allocation.       *)
(***************************************************************************)
EXTENDS Integers, Sequences, FiniteSets, TLC

VARIABLES
    constants,      \* VM.constants: the constant pool
    bytecode,       \* VM.bytecode: the instructions, a sequence of bytes
    vm,             \* the VM's mutable fields and the position of Run
    environment,    \* the *environment.Environment the VM shares with the host
    proc,           \* process-wide state: regCache, stdout, stderr
    obj,            \* the record handed to the current call of Run
    fresh,          \* a VM built by New for the current call of Run, with its
                    \* own copy of the environment and the process state
    runs,           \* number of calls of Run so far
    build,          \* what the build decides where Go leaves it open
    threads,        \* the goroutines inside fnMatch: where each is, and its
                    \* regular expression
    call            \* the last application of a function taken by itself: the
                    \* function, its arguments and what it returned

vars == <<constants, bytecode, vm, environment, proc, obj, fresh, runs, build, threads, call>>

(***************************************************************************)
(* Bounds of the model.                                                    *)
(***************************************************************************)
MaxRuns == 2
MaxSteps == 10
ModelIntLimit == 1000000
ModelRatLimit == 30000
MaxFracDigits == 6
MaxStrLen == 3
MaxBytes == 5

\* the largest operand of an instruction: math.MaxUint16
MaxOperand == 65535

(***************************************************************************)
(* Integer helpers with Go's semantics.                                    *)
(***************************************************************************)
Abs(x) == IF x < 0 THEN -x ELSE x

Sign(x) == IF x < 0 THEN -1 ELSE IF x > 0 THEN 1 ELSE 0

\* Go's integer division truncates toward zero
GoQuo(a, b) == Sign(a) * Sign(b) * (Abs(a) \div Abs(b))

\* Go's remainder has the sign of the dividend
GoRem(a, b) == a - b * GoQuo(a, b)

RECURSIVE Gcd(_, _)
Gcd(a, b) == IF b = 0 THEN a ELSE Gcd(b, a % b)

RECURSIVE IPow(_, _)
IPow(b, e) == IF e = 0 THEN 1 ELSE b * IPow(b, e - 1)


(***************************************************************************)
(* Byte strings.                                                           *)
(***************************************************************************)

\* the strings of the program and of the model's inputs, as bytes
Text ==
    [ true |-> <<116, 114, 117, 101>>,
      false |-> <<102, 97, 108, 115, 101>>,
      null |-> <<110, 117, 108, 108>>,
      match |-> <<109, 97, 116, 99, 104>>,
      int |-> <<105, 110, 116>>,
      float |-> <<102, 108, 111, 97, 116>>,
      len |-> <<108, 101, 110>>,
      lower |-> <<108, 111, 119, 101, 114>>,
      upper |-> <<117, 112, 112, 101, 114>>,
      string |-> <<115, 116, 114, 105, 110, 103>>,
      trim |-> <<116, 114, 105, 109>>,
      type |-> <<116, 121, 112, 101>>,
      print |-> <<112, 114, 105, 110, 116>>,
      icase |-> <<40, 63, 105, 41>>,
      x |-> <<120>>,
      y |-> <<121>>,
      dollar_x |-> <<36, 120>>,
      v |-> <<118>>,
      nofunc |-> <<110, 111>>,
      ab |-> <<97, 98>>,
      abc |-> <<97, 98, 99>>,
      b |-> <<98>> ]

\* s < t in Go's string order: bytewise lexicographic
RECURSIVE StrLess(_, _)
StrLess(s, t) ==
    IF t = <<>> THEN FALSE
    ELSE IF s = <<>> THEN TRUE
    ELSE IF s[1] # t[1] THEN s[1] < t[1]
    ELSE StrLess(Tail(s), Tail(t))

HasPrefix(s, p) == Len(p) <= Len(s) /\ SubSeq(s, 1, Len(p)) = p

\* strings.Contains
Contains(s, p) == \E i \in 0..(Len(s) - Len(p)) : SubSeq(s, i + 1, i + Len(p)) = p

\* decimal digits of n >= 0
RECURSIVE NatToStr(_)
NatToStr(n) == IF n < 10 THEN <<48 + n>> ELSE Append(NatToStr(n \div 10), 48 + (n % 10))

\* the decimal digits of r/d, 0 <= r < d, at most k of them
RECURSIVE FracDigits(_, _, _)
FracDigits(r, d, k) ==
    IF r = 0 \/ k = 0 THEN <<>>
    ELSE <<48 + ((r * 10) \div d)>> \o FracDigits((r * 10) % d, d, k - 1)

\* strconv.FormatFloat(f, 'f', -1, 64) of the rational n/d
FloatToStr(n, d) ==
    LET a == Abs(n)
        frac == FracDigits(a % d, d, MaxFracDigits)
    IN  (IF n < 0 THEN <<45>> ELSE <<>>) \o NatToStr(a \div d)
            \o (IF frac = <<>> THEN <<>> ELSE <<46>> \o frac)

(***************************************************************************)
(* object.Object                                                           *)
(***************************************************************************)
MkVal(t, n, d, s, e, b, ptr) ==
    [t |-> t, n |-> n, d |-> d, s |-> s, e |-> e, b |-> b, ptr |-> ptr]

\* Go's nil interface value (no object)
Nil == MkVal("nil", 0, 1, <<>>, <<>>, FALSE, "nil")

\* &object.Integer{Value: v}
Integer(v) == MkVal("INTEGER", v, 1, <<>>, <<>>, FALSE, "heap")

\* &object.Float{Value: n/d}
Float(n, d) ==
    LET g == Gcd(Abs(n), d)
    IN  MkVal("FLOAT", n \div g, d \div g, <<>>, <<>>, FALSE, "heap")

\* &object.String{Value: s}
String(s) == MkVal("STRING", 0, 1, s, <<>>, FALSE, "heap")

\* &object.Boolean{Value: b}: a fresh allocation, not vm.True / vm.False
Boolean(b) == MkVal("BOOLEAN", 0, 1, <<>>, <<>>, b, "heap")

\* &object.Null{}: a fresh allocation, not vm.Null
NewNull == MkVal("NULL", 0, 1, <<>>, <<>>, FALSE, "heap")

\* &object.Array{Elements: e}
Array(e) == MkVal("ARRAY", 0, 1, <<>>, e, FALSE, "heap")

\* the package-level objects of vm.go
True == MkVal("BOOLEAN", 0, 1, <<>>, <<>>, TRUE, "True")
False == MkVal("BOOLEAN", 0, 1, <<>>, <<>>, FALSE, "False")
Null == MkVal("NULL", 0, 1, <<>>, <<>>, FALSE, "Null")

Type(v) == v.t

\* strings.Join(elems, ", ")
RECURSIVE JoinComma(_)
JoinComma(ss) ==
    IF ss = <<>> THEN <<>>
    ELSE IF Len(ss) = 1 THEN ss[1]
    ELSE ss[1] \o <<44, 32>> \o JoinComma(Tail(ss))

\* Object.Inspect
RECURSIVE Inspect(_)
Inspect(v) ==
    CASE v.t = "INTEGER" -> IF v.n < 0 THEN <<45>> \o NatToStr(-v.n) ELSE NatToStr(v.n)
      [] v.t = "FLOAT" -> FloatToStr(v.n, v.d)
      [] v.t = "STRING" -> v.s
      [] v.t = "BOOLEAN" -> IF v.b THEN Text.true ELSE Text.false
      [] v.t = "NULL" -> Text.null
      [] v.t = "ARRAY" ->
            <<91>> \o JoinComma([i \in 1..Len(v.e) |-> Inspect(v.e[i])]) \o <<93>>

\* IsTrue, had an Array been true-like when one of its elements is
IsTrueByElements(v) ==
    CASE v.t = "INTEGER" -> v.n # 0
      [] v.t = "FLOAT" -> v.n # 0
      [] v.t = "STRING" -> v.s # <<>>
      [] v.t = "BOOLEAN" -> v.b
      [] v.t = "NULL" -> FALSE
      [] v.t = "ARRAY" -> \E i \in 1..Len(v.e) : v.e[i] # Integer(0) /\ v.e[i] # Array(<<>>)

\* Object.True
IsTrue(v) ==
    CASE v.t = "INTEGER" -> v.n # 0
      [] v.t = "FLOAT" -> v.n # 0
      [] v.t = "STRING" -> v.s # <<>>
      [] v.t = "BOOLEAN" -> v.b
      [] v.t = "NULL" -> FALSE
      [] v.t = "ARRAY" -> Len(v.e) # 0

(***************************************************************************)
(* code.Opcode: the opcodes that carry a 16-bit operand come first, then   *)
(* the marker OpCodeSingleArg, then the one-byte opcodes, then OpFinal.    *)
(* An opcode's byte is its position in this table, from 0.                 *)
(***************************************************************************)
OpcodeTable ==
    << "OpConstant", "OpLookup", "OpPush", "OpArray", "OpJump", "OpJumpIfFalse",
       "OpCall", "OpCodeSingleArg",
       "OpNop", "OpSet", "OpAdd", "OpSub", "OpMul", "OpDiv", "OpMod", "OpPower",
       "OpLess", "OpLessEqual", "OpGreater", "OpGreaterEqual", "OpEqual",
       "OpNotEqual", "OpMatches", "OpNotMatches", "OpAnd", "OpOr",
       "OpArrayIndex", "OpBang", "OpMinus", "OpRoot", "OpTrue", "OpFalse",
       "OpReturn", "OpFinal" >>

\* the byte of the opcode called name
Opcode(name) == (CHOOSE i \in 1..Len(OpcodeTable) : OpcodeTable[i] = name) - 1

\* code.Length
Length(b) == IF b < Opcode("OpCodeSingleArg") THEN 3 ELSE 1

\* the opcodes executeBinaryOperation is called for (Run, case of line 182)
BinaryOps ==
    { "OpAdd", "OpSub", "OpMul", "OpDiv", "OpMod", "OpPower", "OpLess",
      "OpLessEqual", "OpGreater", "OpGreaterEqual", "OpEqual", "OpNotEqual",
      "OpMatches", "OpNotMatches", "OpAnd", "OpOr" }

(***************************************************************************)
(* Go maps with string keys: functions whose domain is the set of keys.    *)
(***************************************************************************)
EmptyMap == [k \in {} |-> Nil]

MapHas(m, k) == k \in DOMAIN m

MapPut(m, k, v) == [x \in (DOMAIN m) \cup {k} |-> IF x = k THEN v ELSE m[x]]

(***************************************************************************)
(* A world: one VM together with the environment and the process state it  *)
(* acts on.  The operators below are the VM's methods as functions from    *)
(* world to world.                                                         *)
(***************************************************************************)
World(v, e, p) == [vm |-> v, env |-> e, proc |-> p]

\* vm.New: a VM with an empty stack and no field cache
New ==
    [stack |-> <<>>, fields |-> EmptyMap, ip |-> 0, state |-> "Idle",
     result |-> Nil, err |-> "nil",
     \* history, for stating properties: the instructions dispatched in this
     \* run, the calls of inspectObject in this run, the offset of the
     \* instruction dispatched last (-1: none) and the stack it found
     steps |-> 0, inspected |-> 0, prev |-> -1, pre |-> <<>>]

\* stack.Push
Push(w, v) == [w EXCEPT !.vm.stack = Append(@, v)]

\* the value stack.Pop returns from a non-empty stack
Top(w) == w.vm.stack[Len(w.vm.stack)]

\* the k-th value from the top, 1 being the top
Peek(w, k) == w.vm.stack[Len(w.vm.stack) + 1 - k]

\* the stack after k successful calls of stack.Pop
Drop(w, k) == [w EXCEPT !.vm.stack = SubSeq(@, 1, Len(@) - k)]

Depth(w) == Len(w.vm.stack)

\* Run returns (nil, err)
Fault(w, e) == [w EXCEPT !.vm.state = "Faulted", !.vm.err = e, !.vm.result = Nil]

\* stack.Pop on an empty stack, after every value was popped: Run returns its error
Underflow(w) == Fault([w EXCEPT !.vm.stack = <<>>], "stack underflow")

\* Run returns (v, nil)
Returned(w, v) == [w EXCEPT !.vm.state = "Returned", !.vm.result = v, !.vm.err = "nil"]

\* a Go run-time panic: it unwinds Run and, unrecovered, ends the process
Panic(w, what) == [w EXCEPT !.vm.state = "Panicked", !.vm.err = what, !.vm.result = Nil]

\* os.Exit(1)
Exit(w) == [w EXCEPT !.vm.state = "Exited", !.vm.err = "os.Exit", !.vm.result = Nil]

\* the step's result is outside the model (see the conventions): it is not taken
Beyond(w) == [w EXCEPT !.vm.state = "Beyond"]

MulFits(a, b) == a = 0 \/ b = 0 \/ Abs(a) <= ModelIntLimit \div Abs(b)

\* push an Integer the model can hold
PushInt(w, n) ==
    IF -ModelIntLimit <= n /\ n <= ModelIntLimit THEN Push(w, Integer(n)) ELSE Beyond(w)

\* fmt.Printf
Printf(w, msg) == [w EXCEPT !.proc.stdout = Append(@, msg)]

(***************************************************************************)
(* environment.Environment                                                 *)
(***************************************************************************)
\* Environment.Get
EnvHas(w, name) == MapHas(w.env.vars, name)

\* Environment.Set
EnvSet(w, name, val) == [w EXCEPT !.env.vars = MapPut(@, name, val)]

\* Environment.GetFunction: ok
HasFunction(w, name) == name \in DOMAIN w.env.funcs

\* the built-in functions environment.New registers
Builtins ==
    [n \in {Text.float, Text.int, Text.len, Text.lower, Text.upper, Text.string, Text.trim, Text.type,
            Text.print, Text.match} |->
        CASE n = Text.float -> "fnFloat"
          [] n = Text.int -> "fnInt"
          [] n = Text.len -> "fnLen"
          [] n = Text.lower -> "fnLower"
          [] n = Text.upper -> "fnUpper"
          [] n = Text.string -> "fnString"
          [] n = Text.trim -> "fnTrim"
          [] n = Text.type -> "fnType"
          [] n = Text.print -> "fnPrint"
          [] n = Text.match -> "fnMatch"]

(***************************************************************************)
(* The string functions of Go's library the built-ins use, on ASCII.       *)
(***************************************************************************)
\* unicode.IsSpace, for ASCII
IsSpace(b) == b \in {9, 10, 11, 12, 13, 32}

RECURSIVE TrimLeft(_)
TrimLeft(s) == IF s # <<>> /\ IsSpace(s[1]) THEN TrimLeft(Tail(s)) ELSE s

RECURSIVE TrimRight(_)
TrimRight(s) ==
    IF s # <<>> /\ IsSpace(s[Len(s)]) THEN TrimRight(SubSeq(s, 1, Len(s) - 1)) ELSE s

\* strings.TrimSpace
TrimSpace(s) == TrimRight(TrimLeft(s))

\* strings.Split(s, "\n")
RECURSIVE SplitLines(_)
SplitLines(s) ==
    IF \A i \in 1..Len(s) : s[i] # 10 THEN <<s>>
    ELSE LET i == CHOOSE j \in 1..Len(s) : s[j] = 10 /\ \A k \in 1..(j - 1) : s[k] # 10
         IN  <<SubSeq(s, 1, i - 1)>> \o SplitLines(SubSeq(s, i + 1, Len(s)))

\* strings.ToLower
ToLower(s) == [i \in 1..Len(s) |-> IF 65 <= s[i] /\ s[i] <= 90 THEN s[i] + 32 ELSE s[i]]

IsAscii(s) == \A i \in 1..Len(s) : s[i] < 128

IsDigits(s) == s # <<>> /\ \A i \in 1..Len(s) : 48 <= s[i] /\ s[i] <= 57

\* the number a string of digits denotes, or ModelIntLimit + 1 for anything above
RECURSIVE DigitsValue(_)
DigitsValue(s) ==
    IF s = <<>> THEN 0
    ELSE LET hi == DigitsValue(SubSeq(s, 1, Len(s) - 1))
         IN  IF hi > ModelIntLimit \div 10 THEN ModelIntLimit + 1
             ELSE IF hi * 10 + (s[Len(s)] - 48) > ModelIntLimit THEN ModelIntLimit + 1
             ELSE hi * 10 + (s[Len(s)] - 48)

\* s without its sign
Unsigned(s) == IF s # <<>> /\ s[1] \in {43, 45} THEN Tail(s) ELSE s

SignOf(s) == IF s # <<>> /\ s[1] = 45 THEN -1 ELSE 1

\* strconv.ParseFloat(s, 64) succeeds, for the decimal forms digits[.digits]
ParsesFloat(s) ==
    LET u == Unsigned(s)
    IN  \/ IsDigits(u)
        \/ \E i \in 1..Len(u) :
              /\ u[i] = 46
              /\ IsDigits(SubSeq(u, 1, i - 1) \o SubSeq(u, i + 1, Len(u)))

(***************************************************************************)
(* regexp, for the patterns of the model: a pattern without metacharacters *)
(* (it matches where it occurs), one made case-insensitive by a leading    *)
(* (?i), and patterns regexp.Compile rejects.  A compiled expression is    *)
(* represented by its source.                                              *)
(***************************************************************************)
\* no byte of p is a metacharacter of regexp
IsLiteral(p) ==
    \A i \in 1..Len(p) :
        p[i] \notin {92, 46, 43, 42, 63, 40, 41, 124, 91, 93, 123, 125, 94, 36}


Has(p, b) == \E i \in 1..Len(p) : p[i] = b

RegexKind(p) ==
    IF IsLiteral(p) THEN "literal"
    ELSE IF HasPrefix(p, Text.icase) /\ IsLiteral(SubSeq(p, 5, Len(p))) THEN "icase"
    ELSE IF \/ Has(p, 40) /\ ~Has(p, 41)
            \/ Has(p, 91) /\ ~Has(p, 93)
            \/ p[1] \in {42, 43, 63}
         THEN "invalid"
    ELSE "other"

\* Regexp.MatchString
MatchString(r, s) ==
    IF RegexKind(r) = "icase"
    THEN Contains(ToLower(s), ToLower(SubSeq(r, 5, Len(r))))
    ELSE Contains(s, r)

(***************************************************************************)
(* environment/builtins.go.  A built-in maps the world and its arguments   *)
(* to the world after the call and the object returned.                    *)
(***************************************************************************)
Ret(w, v) == [w |-> w, ret |-> v]

\* where the decimal point of u is, or one past its end
DotOf(u) == IF Has(u, 46) THEN CHOOSE i \in 1..Len(u) : u[i] = 46 ELSE Len(u) + 1

\* the Float of sign, digits and the number of digits after the point
DecimalFloat(w, sign, value, places) ==
    IF value > ModelIntLimit \/ places > MaxFracDigits THEN Ret(Beyond(w), Nil)
    ELSE Ret(w, Float(sign * value, IPow(10, places)))

\* strconv.ParseFloat(str, 64) and what fnFloat returns for it
floatOfString(w, str, u, dot) ==
    IF ~ParsesFloat(str) THEN Ret(w, NewNull)
    ELSE DecimalFloat(w, SignOf(str),
                      DigitsValue(SubSeq(u, 1, dot - 1) \o SubSeq(u, dot + 1, Len(u))),
                      IF dot > Len(u) THEN 0 ELSE Len(u) - dot)

\* fnFloat
fnFloat(w, args) ==
    IF Len(args) # 1 THEN Ret(w, NewNull)
    ELSE floatOfString(w, Inspect(args[1]), Unsigned(Inspect(args[1])),
                       DotOf(Unsigned(Inspect(args[1]))))

\* strconv.ParseInt(str, 10, 64) and what fnInt returns for it
intOfString(w, str) ==
    IF ~IsDigits(Unsigned(str)) THEN Ret(w, NewNull)
    ELSE IF DigitsValue(Unsigned(str)) > ModelIntLimit THEN Ret(Beyond(w), Nil)
    ELSE Ret(w, Integer(SignOf(str) * DigitsValue(Unsigned(str))))

\* fnInt
fnInt(w, args) ==
    IF Len(args) # 1 THEN Ret(w, NewNull) ELSE intOfString(w, Inspect(args[1]))

\* fnLen
fnLen(w, args) ==
    IF Len(args) # 1 THEN Ret(w, NewNull)
    ELSE IF args[1].t = "ARRAY" THEN Ret(w, Integer(Len(args[1].e)))
    ELSE \* utf8.RuneCountInString: every byte but a continuation byte starts a rune
         Ret(w, Integer(Cardinality({i \in 1..Len(Inspect(args[1])) :
                    ~(128 <= Inspect(args[1])[i] /\ Inspect(args[1])[i] < 192)})))

\* fnLower
fnLower(w, args) ==
    IF Len(args) # 1 THEN Ret(w, NewNull)
    ELSE IF ~IsAscii(Inspect(args[1])) THEN Ret(Beyond(w), Nil)
    ELSE Ret(w, String(ToLower(Inspect(args[1]))))

\* fnUpper
fnUpper(w, args) ==
    IF Len(args) # 1 THEN Ret(w, NewNull)
    ELSE IF ~IsAscii(Inspect(args[1])) THEN Ret(Beyond(w), Nil)
    ELSE \* strings.ToUpper
         Ret(w, String([i \in 1..Len(Inspect(args[1])) |->
                            IF 97 <= Inspect(args[1])[i] /\ Inspect(args[1])[i] <= 122
                            THEN Inspect(args[1])[i] - 32 ELSE Inspect(args[1])[i]]))

\* matchLines, had the lines been matched as they are
matchLinesUntrimmed(w, r, lines) ==
    IF \E i \in 1..Len(lines) : MatchString(r, lines[i])
    THEN Ret(w, Boolean(TRUE))
    ELSE Ret(w, Boolean(FALSE))

\* fnMatch: the loop over the lines of the input
matchLines(w, r, lines) ==
    IF \E i \in 1..Len(lines) : MatchString(r, TrimSpace(lines[i]))
    THEN Ret(w, Boolean(TRUE))
    ELSE Ret(w, Boolean(FALSE))

\* matchStrings, had the expression been stored before the test of the error
matchStringsStoresFirst(w, str, reg, kind) ==
    IF MapHas(w.proc.regCache, reg)
    THEN matchLines(w, w.proc.regCache[reg], SplitLines(str))
    ELSE IF kind = "other" THEN Ret(Beyond(w), Nil)
    ELSE IF kind = "invalid"
    THEN Ret(Printf([w EXCEPT !.proc.regCache = MapPut(@, reg, reg)],
                    <<73, 110, 118, 97, 108, 105, 100, 32>> \o reg), Boolean(FALSE))
    ELSE matchLines([w EXCEPT !.proc.regCache = MapPut(@, reg, reg)], reg, SplitLines(str))

\* fnMatch, for the input str and the expression reg whose kind is kind
matchStrings(w, str, reg, kind) ==
    IF MapHas(w.proc.regCache, reg)
    THEN matchLines(w, w.proc.regCache[reg], SplitLines(str))
    ELSE IF kind = "other" THEN Ret(Beyond(w), Nil)
    ELSE IF kind = "invalid"
    THEN Ret(Printf(w, <<73, 110, 118, 97, 108, 105, 100, 32>> \o reg), Boolean(FALSE))
    ELSE matchLines([w EXCEPT !.proc.regCache = MapPut(@, reg, reg)], reg, SplitLines(str))

\* fnMatch
fnMatch(w, args) ==
    IF Len(args) # 2 THEN Ret(w, Boolean(FALSE))
    ELSE matchStrings(w, Inspect(args[1]), Inspect(args[2]), RegexKind(Inspect(args[2])))

\* fnString
fnString(w, args) ==
    IF Len(args) # 1 THEN Ret(w, NewNull) ELSE Ret(w, String(Inspect(args[1])))

RECURSIVE ConcatInspect(_)
ConcatInspect(args) ==
    IF args = <<>> THEN <<>> ELSE Inspect(args[1]) \o ConcatInspect(Tail(args))

\* fnTrim
fnTrim(w, args) == Ret(w, String(TrimSpace(ConcatInspect(args))))

\* fnType
fnType(w, args) ==
    IF Len(args) # 1 THEN Ret(w, NewNull)
    ELSE Ret(w, String(
            CASE args[1].t = "INTEGER" -> <<105, 110, 116, 101, 103, 101, 114>>
              [] args[1].t = "FLOAT" -> Text.float
              [] args[1].t = "STRING" -> Text.string
              [] args[1].t = "BOOLEAN" -> <<98, 111, 111, 108, 101, 97, 110>>
              [] args[1].t = "ARRAY" -> <<97, 114, 114, 97, 121>>
              [] args[1].t = "NULL" -> Text.null))

RECURSIVE PrintAll(_, _)
PrintAll(w, args) ==
    IF args = <<>> THEN w ELSE PrintAll(Printf(w, Inspect(args[1])), Tail(args))

\* fnPrint
fnPrint(w, args) == Ret(PrintAll(w, args), Integer(0))

\* out(fnArgs): the call of the function fn.(func(args []object.Object) object.Object)
Invoke(w, fn, args) ==
    LET w0 == [w EXCEPT !.proc.calls = Append(@, [fn |-> fn, args |-> args])]
    IN  CASE fn = "fnFloat" -> fnFloat(w0, args)
          [] fn = "fnInt" -> fnInt(w0, args)
          [] fn = "fnLen" -> fnLen(w0, args)
          [] fn = "fnLower" -> fnLower(w0, args)
          [] fn = "fnUpper" -> fnUpper(w0, args)
          [] fn = "fnMatch" -> fnMatch(w0, args)
          [] fn = "fnString" -> fnString(w0, args)
          [] fn = "fnTrim" -> fnTrim(w0, args)
          [] fn = "fnType" -> fnType(w0, args)
          [] fn = "fnPrint" -> fnPrint(w0, args)

(***************************************************************************)
(* The record handed to Run, as reflect sees it.  A record is nil, a       *)
(* map[string]interface{} or a struct (or a pointer to one); a field is a  *)
(* host value of some reflect.Kind.  The elements of a slice are of the    *)
(* predeclared type of their kind.                                         *)
(***************************************************************************)
HV(k, n, d, s, b, el) == [k |-> k, n |-> n, d |-> d, s |-> s, b |-> b, el |-> el]

HInt(k, n) == HV(k, n, 1, <<>>, FALSE, <<>>)
HBool(b) == HV("Bool", 0, 1, <<>>, b, <<>>)
HOther(k) == HV(k, 0, 1, <<>>, FALSE, <<>>)

NilRecord == [kind |-> "nil", f |-> [k \in {} |-> HOther("Invalid")]]
MapRecord(f) == [kind |-> "map", f |-> f]
\* createArrayFromSlice: the type assertions that succeed
ElemConverts(h) ==
    h.k \in {"String", "Bool", "Float32", "Float64", "Int", "Int32", "Int64"}

\* createArrayFromSlice: the object appended for one element
ElemObject(h) ==
    CASE h.k = "String" -> String(h.s)
      [] h.k = "Bool" -> Boolean(h.b)
      [] h.k \in {"Float32", "Float64"} -> Float(h.n, h.d)
      [] h.k \in {"Int", "Int32", "Int64"} -> Integer(h.n)

\* inspectObject: the switch on field.Kind(), the same for a map and a struct
FieldObject(h) ==
    CASE h.k = "Slice" -> \* createArrayFromSlice
                          Array([i \in 1..Len(h.el) |-> ElemObject(h.el[i])])
      [] h.k \in {"Int", "Int64"} -> Integer(h.n)
      [] h.k \in {"Float32", "Float64"} -> Float(h.n, h.d)
      [] h.k = "String" -> String(h.s)
      [] h.k = "Bool" -> Boolean(h.b)
      [] OTHER -> NewNull

\* inspectObject
inspectObject(w, o) ==
    LET w1 == [w EXCEPT !.vm.inspected = @ + 1]
    IN  IF o.kind = "nil" THEN w1
        ELSE IF o.kind \notin {"map", "struct"} THEN Panic(w1, "reflect: NumField")
        ELSE IF \E k \in DOMAIN o.f : o.f[k].k = "Slice" /\ \E i \in 1..Len(o.f[k].el) : ~ElemConverts(o.f[k].el[i])
        THEN Exit(Printf(w1, <<70, 97, 105, 108, 101, 100>>))
        ELSE [w1 EXCEPT !.vm.fields =
                [k \in (DOMAIN @) \cup (DOMAIN o.f) |->
                    IF k \in DOMAIN o.f THEN FieldObject(o.f[k]) ELSE @[k]]]

\* TrimDollar, had the name been left as it is
KeepDollar(name) == name

\* strings.TrimPrefix(name, "$")
TrimDollar(name) == IF HasPrefix(name, <<36>>) THEN Tail(name) ELSE name

\* lookup: the look in the field cache
lookupField(w, name) ==
    IF w.vm.state # "Running" THEN Ret(w, Nil)
    ELSE IF MapHas(w.vm.fields, name) THEN Ret(w, w.vm.fields[name])
    ELSE Ret(w, Null)

\* lookupName, had the fields of the record been looked at before the variables
lookupNameFieldFirst(w, o, name) ==
    LET w1 == IF DOMAIN w.vm.fields = {} THEN inspectObject(w, o) ELSE w
    IN  IF w1.vm.state # "Running" THEN Ret(w1, Nil)
        ELSE IF MapHas(w1.vm.fields, name) THEN Ret(w1, w1.vm.fields[name])
        ELSE IF EnvHas(w1, name) THEN Ret(w1, w1.env.vars[name])
        ELSE Ret(w1, Null)

\* lookup, once the "$" is removed
lookupName(w, o, name) ==
    IF EnvHas(w, name) THEN Ret(w, w.env.vars[name])
    ELSE IF DOMAIN w.vm.fields = {} THEN lookupField(inspectObject(w, o), name)
    ELSE lookupField(w, name)

\* lookup: the world after it, and the object it returns
lookup(w, o, name) == lookupName(w, o, TrimDollar(name))

(***************************************************************************)
(* Binary operators.                                                       *)
(***************************************************************************)
\* nativeBoolToBooleanObject, had it made a new object.Boolean
nativeBoolToNewBoolean(input) == Boolean(input)

\* nativeBoolToBooleanObject
nativeBoolToBooleanObject(input) == IF input THEN True ELSE False

FitsRat(n, d) == Abs(n) <= ModelRatLimit /\ d <= ModelRatLimit

\* push a Float the model can hold
PushFloat(w, n, d) ==
    LET v == Float(n, d) IN IF FitsRat(v.n, v.d) THEN Push(w, v) ELSE Beyond(w)

\* acc * b^e, or ModelIntLimit + 1 once the magnitude passes ModelIntLimit (|b| >= 2)
RECURSIVE PowAcc(_, _, _)
PowAcc(acc, b, e) ==
    IF e = 0 THEN acc
    ELSE IF ~MulFits(acc, b) THEN ModelIntLimit + 1
    ELSE PowAcc(acc * b, b, e - 1)

\* b^e for e >= 0, or a number above ModelIntLimit in magnitude
BoundedPow(b, e) ==
    IF e = 0 THEN 1
    ELSE IF b = 0 THEN 0
    ELSE IF b = 1 THEN 1
    ELSE IF b = -1 THEN (IF e % 2 = 0 THEN 1 ELSE -1)
    ELSE PowAcc(1, b, e)

\* int64(math.Pow(float64(l), float64(r)))
IntegerPower(w, l, r) ==
    IF r >= 0 THEN PushInt(w, BoundedPow(l, r))
    ELSE IF l = 0 THEN Beyond(w)
    ELSE IF Abs(l) = 1 THEN PushInt(w, BoundedPow(l, -r))
    ELSE PushInt(w, 0)

\* math.Pow on rationals
FloatPower(w, ln, ld, rn, rd) ==
    IF rd = 1 /\ rn >= 0
    THEN LET pn == BoundedPow(ln, rn)
             pd == BoundedPow(ld, rn)
         IN  IF FitsRat(pn, pd) THEN PushFloat(w, pn, pd) ELSE Beyond(w)
    ELSE IF rd = 1
    THEN IF ln = 0 THEN Beyond(w)
         ELSE LET pn == BoundedPow(Sign(ln) * ld, -rn)
                  pd == BoundedPow(Abs(ln), -rn)
              IN  IF FitsRat(pn, pd) THEN PushFloat(w, pn, pd) ELSE Beyond(w)
    ELSE IF ln = ld THEN PushFloat(w, 1, 1)
    ELSE IF ln = 0 /\ rn > 0 THEN PushFloat(w, 0, 1)
    ELSE Beyond(w)

\* integerDivide, had the test of the divisor been left out: Go's integer
\* division panics
integerDivideUnchecked(w, leftVal, rightVal) ==
    IF rightVal = 0 THEN Panic(w, "integer divide by zero")
    ELSE PushInt(w, GoQuo(leftVal, rightVal))

\* evalIntegerInfixExpression, case code.OpDiv
integerDivide(w, leftVal, rightVal) ==
    IF rightVal = 0 THEN Fault(w, "division by zero")
    ELSE PushInt(w, GoQuo(leftVal, rightVal))

\* evalIntegerInfixExpression
evalIntegerInfixExpression(w, op, left, right) ==
    LET leftVal == left.n
        rightVal == right.n
    IN  CASE op = "OpAdd" -> PushInt(w, leftVal + rightVal)
          [] op = "OpSub" -> PushInt(w, leftVal - rightVal)
          [] op = "OpMul" ->
                IF MulFits(leftVal, rightVal) THEN PushInt(w, leftVal * rightVal)
                ELSE Beyond(w)
          [] op = "OpDiv" -> integerDivide(w, leftVal, rightVal)
          [] op = "OpMod" ->
                IF rightVal = 0 THEN Panic(w, "integer divide by zero")
                ELSE PushInt(w, GoRem(leftVal, rightVal))
          [] op = "OpPower" -> IntegerPower(w, leftVal, rightVal)
          [] op = "OpLess" -> Push(w, nativeBoolToBooleanObject(leftVal < rightVal))
          [] op = "OpLessEqual" -> Push(w, nativeBoolToBooleanObject(leftVal <= rightVal))
          [] op = "OpGreater" -> Push(w, nativeBoolToBooleanObject(leftVal > rightVal))
          [] op = "OpGreaterEqual" -> Push(w, nativeBoolToBooleanObject(leftVal >= rightVal))
          [] op = "OpEqual" -> Push(w, nativeBoolToBooleanObject(leftVal = rightVal))
          [] op = "OpNotEqual" -> Push(w, nativeBoolToBooleanObject(leftVal # rightVal))
          [] OTHER -> Fault(w, "unknown operator")

\* the switch the three float functions share, on leftVal = ln/ld and rightVal = rn/rd
floatInfix(w, op, ln, ld, rn, rd) ==
    IF ~FitsRat(ln, ld) \/ ~FitsRat(rn, rd) THEN Beyond(w)
    ELSE
    CASE op = "OpAdd" -> PushFloat(w, ln * rd + rn * ld, ld * rd)
      [] op = "OpSub" -> PushFloat(w, ln * rd - rn * ld, ld * rd)
      [] op = "OpMul" -> PushFloat(w, ln * rn, ld * rd)
      [] op = "OpDiv" ->
            IF rn = 0 THEN Fault(w, "division by zero")
            ELSE PushFloat(w, Sign(rn) * ln * rd, ld * Abs(rn))
      [] op = "OpMod" ->
            IF GoQuo(rn, rd) = 0 THEN Panic(w, "integer divide by zero")
            ELSE PushFloat(w, GoRem(GoQuo(ln, ld), GoQuo(rn, rd)), 1)
      [] op = "OpPower" -> FloatPower(w, ln, ld, rn, rd)
      [] op = "OpLess" -> Push(w, nativeBoolToBooleanObject(ln * rd < rn * ld))
      [] op = "OpLessEqual" -> Push(w, nativeBoolToBooleanObject(ln * rd <= rn * ld))
      [] op = "OpGreater" -> Push(w, nativeBoolToBooleanObject(ln * rd > rn * ld))
      [] op = "OpGreaterEqual" -> Push(w, nativeBoolToBooleanObject(ln * rd >= rn * ld))
      [] op = "OpEqual" -> Push(w, nativeBoolToBooleanObject(ln * rd = rn * ld))
      [] op = "OpNotEqual" -> Push(w, nativeBoolToBooleanObject(ln * rd # rn * ld))
      [] OTHER -> Fault(w, "unknown operator")

\* pushMatch, had NOT_MATCHES pushed what MATCHES pushes
pushMatchAlike(c, op) ==
    IF c.w.vm.state # "Running" THEN c.w
    ELSE IF c.ret.t # "BOOLEAN" THEN Panic(c.w, "interface conversion")
    ELSE IF c.ret.b THEN Push(c.w, True)
    ELSE Push(c.w, False)

\* evalStringInfixExpression: what is pushed for the object the function returned
pushMatch(c, op) ==
    IF c.w.vm.state # "Running" THEN c.w
    ELSE IF c.ret.t # "BOOLEAN" THEN Panic(c.w, "interface conversion")
    ELSE IF c.ret.b = (op = "OpMatches") THEN Push(c.w, True)
    ELSE Push(c.w, False)

\* evalStringInfixExpression: OpMatches and OpNotMatches
matchOperator(w, op, l, r) ==
    IF ~HasFunction(w, Text.match) THEN Fault(w, "failed to lookup match-function")
    ELSE pushMatch(Invoke(w, w.env.funcs[Text.match], <<l, r>>), op)

\* evalStringInfixExpression: the switch, on l.Value and r.Value
stringInfix(w, op, left, right, l, r) ==
        CASE op = "OpEqual" -> Push(w, nativeBoolToBooleanObject(l = r))
          [] op = "OpNotEqual" -> Push(w, nativeBoolToBooleanObject(l # r))
          [] op = "OpGreaterEqual" -> Push(w, nativeBoolToBooleanObject(~StrLess(l, r)))
          [] op = "OpGreater" -> Push(w, nativeBoolToBooleanObject(StrLess(r, l)))
          [] op = "OpLessEqual" -> Push(w, nativeBoolToBooleanObject(~StrLess(r, l)))
          [] op = "OpLess" -> Push(w, nativeBoolToBooleanObject(StrLess(l, r)))
          [] op \in {"OpMatches", "OpNotMatches"} -> matchOperator(w, op, left, right)
          [] op = "OpAdd" -> Push(w, String(l \o r))
          [] OTHER -> Fault(w, "unknown operator")

\* evalStringInfixExpression
evalStringInfixExpression(w, op, left, right) ==
    stringInfix(w, op, left, right, left.s, right.s)

\* evalBooleanInfixExpression, had the two operands been handed over in the
\* order they were popped
evalBooleanInfixExpressionSwapped(w, op, left, right) ==
    evalStringInfixExpression(w, op, String(Inspect(right)), String(Inspect(left)))

\* evalBooleanInfixExpression
evalBooleanInfixExpression(w, op, left, right) ==
    evalStringInfixExpression(w, op, String(Inspect(left)), String(Inspect(right)))

\* typeError, had the types of the two operands not been compared
typeErrorUnknown(w, left, right) == Fault(w, "unknown operator")

\* executeBinaryOperation: the last two cases of the switch
typeError(w, left, right) ==
    IF Type(left) # Type(right) THEN Fault(w, "type mismatch")
    ELSE Fault(w, "unknown operator")

\* executeBinaryOperation: the switch, once right and left are popped
binaryDispatch(w, op, left, right) ==
    CASE Type(left) = "INTEGER" /\ Type(right) = "INTEGER" ->
            evalIntegerInfixExpression(w, op, left, right)
      [] Type(left) = "FLOAT" /\ Type(right) = "FLOAT" ->
            \* evalFloatInfixExpression
            floatInfix(w, op, left.n, left.d, right.n, right.d)
      [] Type(left) = "FLOAT" /\ Type(right) = "INTEGER" ->
            \* evalFloatIntegerInfixExpression
            floatInfix(w, op, left.n, left.d, right.n, 1)
      [] Type(left) = "INTEGER" /\ Type(right) = "FLOAT" ->
            \* evalIntegerFloatInfixExpression
            floatInfix(w, op, left.n, 1, right.n, right.d)
      [] Type(left) = "STRING" /\ Type(right) = "STRING" ->
            evalStringInfixExpression(w, op, left, right)
      [] OTHER ->
            IF op = "OpAnd"
            THEN IF ~IsTrue(left) THEN Push(w, False)
                 ELSE IF IsTrue(right) THEN Push(w, True) ELSE Push(w, False)
            ELSE IF op = "OpOr"
            THEN IF IsTrue(left) THEN Push(w, True)
                 ELSE IF IsTrue(right) THEN Push(w, True) ELSE Push(w, False)
            ELSE IF Type(left) = "BOOLEAN" /\ Type(right) = "BOOLEAN"
            THEN evalBooleanInfixExpression(w, op, left, right)
            ELSE typeError(w, left, right)

\* executeBinaryOperation
executeBinaryOperation(w, op) ==
    IF Depth(w) < 2 THEN Underflow(w)
    ELSE binaryDispatch(Drop(w, 2), op, Peek(w, 2), Peek(w, 1))

(***************************************************************************)
(* The other instructions.                                                 *)
(***************************************************************************)
\* executeBangOperator
executeBangOperator(w) ==
    IF Depth(w) < 1 THEN Underflow(w)
    ELSE LET operand == Top(w)
             w1 == Drop(w, 1)
         IN  IF operand.ptr = "True" THEN Push(w1, False)
             ELSE IF operand.ptr = "False" THEN Push(w1, True)
             ELSE IF operand.ptr = "Null"
                        \/ (operand.t = "NULL" /\ operand.ptr = "heap" /\ build.zeroSizeEq)
             THEN Push(w1, True)
             ELSE Push(w1, False)

\* executeMinusOperator
executeMinusOperator(w) ==
    IF Depth(w) < 1 THEN Underflow(w)
    ELSE LET operand == Top(w)
             w1 == Drop(w, 1)
         IN  CASE operand.t = "INTEGER" -> PushInt(w1, -operand.n)
               [] operand.t = "FLOAT" -> PushFloat(w1, -operand.n, operand.d)
               [] OTHER -> Fault(w1, "unsupported type for negation")

\* the square root of n >= 0 if it is a whole number, else -1
Isqrt(n) == IF \E k \in 0..n : k * k = n THEN CHOOSE k \in 0..n : k * k = n ELSE -1

\* executeSquareRoot
executeSquareRoot(w) ==
    IF Depth(w) < 1 THEN Underflow(w)
    ELSE LET operand == Top(w)
             w1 == Drop(w, 1)
         IN  IF operand.t \notin {"INTEGER", "FLOAT"}
             THEN Fault(w1, "unsupported type for square-root")
             ELSE IF operand.n < 0 \/ ~FitsRat(operand.n, operand.d) THEN Beyond(w1)
             ELSE IF Isqrt(operand.n) < 0 \/ Isqrt(operand.d) < 0 THEN Beyond(w1)
             ELSE PushFloat(w1, Isqrt(operand.n), Isqrt(operand.d))

\* indexArray, had an index out of range been an error
indexArrayStrict(w, elements, idx) ==
    IF idx < 0 \/ idx > Len(elements) - 1 THEN Fault(w, "index out of range")
    ELSE Push(w, elements[idx + 1])

\* executeIndexExpression: the array, its bounds-check and its element
indexArray(w, elements, idx) ==
    IF idx < 0 \/ idx > Len(elements) - 1 THEN Push(w, Null)
    ELSE Push(w, elements[idx + 1])

\* executeIndexExpression
executeIndexExpression(w, left, index) ==
    IF Type(left) # "ARRAY" /\ Type(left) # "STRING"
    THEN Fault(w, "the index operator can only be applied to strings and arrays")
    ELSE IF Type(index) # "INTEGER"
    THEN Fault(w, "index operator must be given an integer")
    ELSE LET idx == index.n
         IN  IF Type(left) = "STRING"
             THEN LET str == Inspect(left)
                  IN  IF idx < 0 \/ idx > Len(str) THEN Push(w, Null)
                      ELSE IF idx >= Len(str) THEN Panic(w, "index out of range")
                      ELSE \* string(byte): the UTF-8 of the code point of that number
                           Push(w, String(IF str[idx + 1] < 128 THEN <<str[idx + 1]>>
                                          ELSE <<192 + (str[idx + 1] \div 64),
                                                 128 + (str[idx + 1] % 64)>>))
             ELSE indexArray(w, left.e, idx)

\* execSet, had the value been taken for the name and the name for the value
execSetSwapped(w) ==
    IF Depth(w) < 2 THEN Underflow(w)
    ELSE EnvSet(Drop(w, 2), Inspect(Peek(w, 2)), Peek(w, 1))

\* Run, case code.OpSet
execSet(w) ==
    IF Depth(w) < 2 THEN Underflow(w)
    ELSE EnvSet(Drop(w, 2), Inspect(Peek(w, 1)), Peek(w, 2))

\* execArray, had the elements been kept in the order they were popped
execArrayReversed(w, opArg) ==
    IF Depth(w) < opArg THEN Underflow(w)
    ELSE Push(Drop(w, opArg),
              Array([i \in 1..opArg |-> w.vm.stack[Depth(w) + 1 - i]]))

\* Run, case code.OpArray
execArray(w, opArg) ==
    IF Depth(w) < opArg THEN Underflow(w)
    ELSE Push(Drop(w, opArg),
              Array(SubSeq(w.vm.stack, Depth(w) - opArg + 1, Depth(w))))

\* Run, case code.OpArrayIndex
execArrayIndex(w) ==
    IF Depth(w) < 2 THEN Underflow(w)
    ELSE executeIndexExpression(Drop(w, 2), Peek(w, 2), Peek(w, 1))

\* vm.stack.Push(ret), for the world and the object a call has returned
pushRet(c) == IF c.w.vm.state # "Running" THEN c.w ELSE Push(c.w, c.ret)

\* Run, case code.OpCall: the call, once the name and the arguments are popped
callFunction(w, name, fnArgs) ==
    IF ~HasFunction(w, name) THEN Fault(w, "the function does not exist")
    ELSE pushRet(Invoke(w, w.env.funcs[name], fnArgs))

\* execCall, had the arguments been handed over in the order they were popped
execCallReversed(w, opArg) ==
    IF Depth(w) < opArg + 1 THEN Underflow(w)
    ELSE callFunction(Drop(w, opArg + 1), Inspect(Top(w)),
                      [i \in 1..opArg |-> w.vm.stack[Depth(w) - i]])

\* Run, case code.OpCall
execCall(w, opArg) ==
    IF Depth(w) < opArg + 1 THEN Underflow(w)
    ELSE callFunction(Drop(w, opArg + 1), Inspect(Top(w)),
                      SubSeq(w.vm.stack, Depth(w) - opArg, Depth(w) - 1))

\* execReturn, had RETURN on an empty stack returned Null
execReturnNull(w) ==
    IF Depth(w) < 1 THEN Returned(w, Null) ELSE Returned(Drop(w, 1), Top(w))

\* Run, case code.OpReturn
execReturn(w) ==
    IF Depth(w) < 1 THEN Underflow(w) ELSE Returned(Drop(w, 1), Top(w))

\* execJumpIfFalse, had the offset not been reduced by the length
execJumpIfFalseUnreduced(w, opArg, opLen) ==
    IF Depth(w) < 1 THEN Underflow(w)
    ELSE IF ~IsTrue(Top(w)) THEN [Drop(w, 1) EXCEPT !.vm.ip = opArg]
    ELSE Drop(w, 1)

\* Run, case code.OpJumpIfFalse
execJumpIfFalse(w, opArg, opLen) ==
    IF Depth(w) < 1 THEN Underflow(w)
    ELSE IF ~IsTrue(Top(w)) THEN [Drop(w, 1) EXCEPT !.vm.ip = opArg - opLen]
    ELSE Drop(w, 1)

\* Run, case code.OpLookup
execLookup(w, o, opArg) ==
    IF opArg >= Len(constants) THEN Panic(w, "index out of range")
    ELSE pushRet(lookup(w, o, Inspect(constants[opArg + 1])))

\* Run: the switch on the opcode
execute(w, o, op, opArg, opLen) ==
    CASE op = "OpNop" -> w
      [] op = "OpPush" -> Push(w, Integer(opArg))
      [] op = "OpConstant" ->
            IF opArg >= Len(constants) THEN Panic(w, "index out of range")
            ELSE Push(w, constants[opArg + 1])
      [] op = "OpLookup" -> execLookup(w, o, opArg)
      [] op = "OpSet" -> execSet(w)
      [] op \in BinaryOps -> executeBinaryOperation(w, op)
      [] op = "OpArray" -> execArray(w, opArg)
      [] op = "OpArrayIndex" -> execArrayIndex(w)
      [] op = "OpBang" -> executeBangOperator(w)
      [] op = "OpMinus" -> executeMinusOperator(w)
      [] op = "OpRoot" -> executeSquareRoot(w)
      [] op = "OpTrue" -> Push(w, True)
      [] op = "OpFalse" -> Push(w, False)
      [] op = "OpReturn" -> execReturn(w)
      [] op = "OpJump" -> [w EXCEPT !.vm.ip = opArg - opLen]
      [] op = "OpJumpIfFalse" -> execJumpIfFalse(w, opArg, opLen)
      [] op = "OpCall" -> execCall(w, opArg)
      [] op \in {"OpCodeSingleArg", "OpFinal"} -> Fault(w, "tried to execute fake instruction")
      [] OTHER -> Fault(w, "unhandled opcode")

\* the opcode at offset ip of the bytecode
OpAt(ip) ==
    IF bytecode[ip + 1] < Len(OpcodeTable) THEN OpcodeTable[bytecode[ip + 1] + 1] ELSE "unknown"

\* the operand, had it been read with the low byte first
operandAtLittleEndian(ip) == bytecode[ip + 2] + bytecode[ip + 3] * 256

\* binary.BigEndian.Uint16(vm.bytecode[ip+1 : ip+3])
OperandAt(ip) == bytecode[ip + 2] * 256 + bytecode[ip + 3]

\* advance, had ip been left where it is
advanceNone(w, opLen) == w

\* Run: ip += opLen, unless the instruction has ended the run
advance(w, opLen) == IF w.vm.state = "Running" THEN [w EXCEPT !.vm.ip = @ + opLen] ELSE w

\* the history of the instruction about to be dispatched
Noted(w) == [w EXCEPT !.vm.steps = @ + 1, !.vm.prev = w.vm.ip, !.vm.pre = w.vm.stack]

\* Run: one pass through the body of the loop, for ip < ln
dispatch(w, o) ==
    IF Length(bytecode[w.vm.ip + 1]) > 1 /\ w.vm.ip + 3 > Len(bytecode)
    THEN Panic(Noted(w), "slice bounds out of range")
    ELSE advance(execute(Noted(w), o, OpAt(w.vm.ip),
                         IF Length(bytecode[w.vm.ip + 1]) > 1 THEN OperandAt(w.vm.ip) ELSE 0,
                         Length(bytecode[w.vm.ip + 1])),
                 Length(bytecode[w.vm.ip + 1]))

\* step, had Run ended with the top of the stack where the bytecode ends
stepReturnsAtEnd(w, o) ==
    IF w.vm.ip < Len(bytecode) THEN dispatch(w, o)
    ELSE IF Depth(w) < 1 THEN Returned(w, Null)
    ELSE Returned(Drop(w, 1), Top(w))

\* Run: the loop's test and one pass, or the return after the loop
step(w, o) ==
    IF w.vm.ip < Len(bytecode) THEN dispatch(w, o)
    ELSE Fault(w, "missing return at the end of the script")

\* runStart, had Run kept the map of the fields
runStartKeepsFields(w) ==
    IF Len(bytecode) < 1
    THEN [Fault(w, "the bytecode program is empty") EXCEPT
            !.vm.steps = 0, !.vm.inspected = 0, !.vm.prev = -1, !.vm.pre = <<>>]
    ELSE [w EXCEPT !.vm.ip = 0, !.vm.state = "Running",
                   !.vm.result = Nil, !.vm.err = "nil",
                   !.vm.steps = 0, !.vm.inspected = 0, !.vm.prev = -1, !.vm.pre = <<>>]

\* Run: up to the loop
runStart(w) ==
    IF Len(bytecode) < 1
    THEN [Fault(w, "the bytecode program is empty") EXCEPT
            !.vm.steps = 0, !.vm.inspected = 0, !.vm.prev = -1, !.vm.pre = <<>>]
    ELSE [w EXCEPT !.vm.fields = EmptyMap, !.vm.ip = 0, !.vm.state = "Running",
                   !.vm.result = Nil, !.vm.err = "nil",
                   !.vm.steps = 0, !.vm.inspected = 0, !.vm.prev = -1, !.vm.pre = <<>>]

(***************************************************************************)
(* int64.  The Value of an object.Integer is an int64, and its sum,        *)
(* difference, product and negation are Go's, which wrap around.  An int64 *)
(* is here its eight bytes in two's complement, the least significant      *)
(* first, so that no number of the model passes 32 bits.                   *)
(***************************************************************************)
\* the k low bytes of the two's complement of n
RECURSIVE Int64Bytes(_, _)
Int64Bytes(n, k) == IF k = 0 THEN <<>> ELSE <<n % 256>> \o Int64Bytes(n \div 256, k - 1)

\* the int64 that is c * 2^63 + k modulo 2^64: the sign bit of k is flipped
\* when c is odd
Wide(c, k) == [Int64Bytes(k, 8) EXCEPT ![8] = (@ + 128 * (c % 2)) % 256]

\* AddCarry, had no carry passed from a byte to the next
AddNoCarry(a, b, c) == [i \in 1..Len(a) |-> (a[i] + b[i] + (IF i = 1 THEN c ELSE 0)) % 256]

\* a + b + c byte by byte, the carry out of the last byte dropped
RECURSIVE AddCarry(_, _, _)
AddCarry(a, b, c) ==
    IF a = <<>> THEN <<>>
    ELSE <<(a[1] + b[1] + c) % 256>>
            \o AddCarry(Tail(a), Tail(b), (a[1] + b[1] + c) \div 256)

\* a * m + c for one byte m, as many bytes as a has
RECURSIVE MulByte(_, _, _)
MulByte(a, m, c) ==
    IF a = <<>> THEN <<>>
    ELSE <<(a[1] * m + c) % 256>> \o MulByte(Tail(a), m, (a[1] * m + c) \div 256)

\* a * b, as many bytes as a has: a * b[1] + 256 * (a * the rest of b)
RECURSIVE MulBytes(_, _)
MulBytes(a, b) ==
    IF a = <<>> THEN <<>>
    ELSE AddCarry(MulByte(a, b[1], 0),
                  <<0>> \o MulBytes(SubSeq(a, 1, Len(a) - 1), Tail(b)), 0)

\* evalIntegerInfixExpression: leftVal + rightVal, leftVal - rightVal and
\* leftVal * rightVal on int64; a - b is a + ^b + 1
int64Infix(op, leftVal, rightVal) ==
    CASE op = "OpAdd" -> AddCarry(leftVal, rightVal, 0)
      [] op = "OpSub" -> AddCarry(leftVal, [i \in 1..Len(rightVal) |-> 255 - rightVal[i]], 1)
      [] op = "OpMul" -> MulBytes(leftVal, rightVal)

\* executeMinusOperator: -obj.Value on int64, which is ^v + 1
int64Minus(v) == AddCarry([i \in 1..Len(v) |-> 255 - v[i]], Int64Bytes(0, Len(v)), 1)

\* the int64 the operators are tried on, each written <<c, k>> for
\* c * 2^63 + k: numbers near zero, near the two ends of int64, and numbers
\* of two and of three bytes
Int64Operands ==
    {0, 1} \X {-40000, -257, -2, -1, 0, 1, 2, 255, 256, 40000}

(***************************************************************************)
(* FieldArgument (args.go).  What Value returns is a host value: an int64, *)
(* a float64 or a string; the kind "nil" is the nil interface, and the     *)
(* kind "panic" stands for the panic of reflect, which Value does not      *)
(* recover.                                                                *)
(***************************************************************************)
\* FieldArgument.Value: reflect.Indirect(reflect.ValueOf(obj)).FieldByName
\* panics unless the value is a struct, and gives the zero Value, of kind
\* Invalid, for a name the struct has no field of
Value(Field, o) ==
    IF o.kind # "struct" THEN HOther("panic")
    ELSE IF Field \notin DOMAIN o.f THEN HOther("nil")
    ELSE LET field == o.f[Field]
         IN  CASE field.k \in {"Int", "Int64"} -> HInt("Int64", field.n)
               [] field.k \in {"Float32", "Float64"} ->
                     HV("Float64", field.n, field.d, <<>>, FALSE, <<>>)
               [] field.k = "String" -> HV("String", 0, 1, field.s, FALSE, <<>>)
               [] field.k = "Bool" ->
                     HV("String", 0, 1,
                        IF field.b THEN <<116, 114, 117, 101>> ELSE <<102, 97, 108, 115, 101>>,
                        FALSE, <<>>)
               [] OTHER -> HOther("nil")

\* the records Value is tried on: nil, an int, and the maps and the structs
\* with any of the fields x and y, of these kinds and values
FieldRecords ==
    LET values == { HInt("Int", 5), HInt("Int64", -3), HInt("Int8", 6), HInt("Uint", 7),
                    HV("Float32", 1, 2, <<>>, FALSE, <<>>),
                    HV("Float64", -3, 4, <<>>, FALSE, <<>>),
                    HV("String", 0, 1, Text.ab, FALSE, <<>>),
                    HBool(TRUE), HBool(FALSE), HOther("Struct"),
                    HV("Slice", 0, 1, <<>>, FALSE, <<HInt("Int", 7)>>) }
    IN  {NilRecord, [kind |-> "int", f |-> NilRecord.f]}
            \cup { [kind |-> k, f |-> f] :
                      k \in {"map", "struct"},
                      f \in UNION {[F -> values] : F \in SUBSET {Text.x, Text.y}} }

(***************************************************************************)
(* Programs: what the compiler hands to vm.New.                            *)
(***************************************************************************)
I(op, arg) == [op |-> op, arg |-> arg]

\* code.Make: the bytes of one instruction, the operand big-endian
Encode(i) ==
    IF Length(Opcode(i.op)) = 3 THEN <<Opcode(i.op), i.arg \div 256, i.arg % 256>>
    ELSE <<Opcode(i.op)>>

RECURSIVE Assemble(_)
Assemble(is) == IF is = <<>> THEN <<>> ELSE Encode(is[1]) \o Assemble(Tail(is))


\* the constant pool of the programs of the model
Pool ==
    << Integer(-1), Integer(0), Float(0, 1), Float(1, 2), Float(2, 1),
       String(<<>>), String(Text.ab), String(Text.abc), String(Text.b),
       String(Text.x), String(Text.y), String(Text.dollar_x), String(Text.v),
       String(Text.match), String(Text.int), String(Text.len), String(Text.nofunc) >>

\* the operand of the CONSTANT or LOOKUP instruction for v
K(v) == (CHOOSE i \in 1..Len(Pool) : Pool[i] = v) - 1

Const(v) == I("OpConstant", K(v))
Lookup(name) == I("OpLookup", K(String(name)))
Op(op) == I(op, 0)

\* instruction sequences that push one operand
Producers ==
    { <<Const(Integer(-1))>>, <<Const(Integer(0))>>, <<I("OpPush", 2)>>, <<I("OpPush", 3)>>,
      <<Const(Float(0, 1))>>, <<Const(Float(1, 2))>>, <<Const(Float(2, 1))>>,
      <<Const(String(<<>>))>>, <<Const(String(Text.ab))>>,
      <<Op("OpTrue")>>, <<Op("OpFalse")>>,
      <<Lookup(Text.y)>>,
      <<I("OpArray", 0)>>, <<I("OpPush", 7), I("OpPush", 8), I("OpArray", 2)>> }

\* operand, operand, operator, RETURN and operand, operator, RETURN
OperatorPrograms ==
    { Assemble(p1 \o p2 \o <<Op(op), Op("OpReturn")>>) :
        p1 \in Producers, p2 \in Producers, op \in BinaryOps \cup {"OpArrayIndex"} }
    \cup
    { Assemble(p1 \o <<Op(op), Op("OpReturn")>>) : p1 \in Producers, op \in {"OpBang", "OpMinus", "OpRoot"} }
    \cup
    \* !!(operand operator operand) and !!true, !!false
    { Assemble(p1 \o p2 \o <<Op(op), Op("OpBang"), Op("OpBang"), Op("OpReturn")>>) :
        p1 \in {<<I("OpPush", 2)>>, <<Const(String(Text.ab))>>, <<Op("OpTrue")>>},
        p2 \in {<<I("OpPush", 3)>>, <<Const(String(Text.ab))>>, <<Op("OpFalse")>>, <<>>},
        op \in {"OpLess", "OpEqual", "OpNotEqual", "OpMatches", "OpNotMatches", "OpAnd",
                "OpOr", "OpNop"} }

\* hand-written programs
HandPrograms ==
    { <<>>,
      \* no RETURN: falls through the last instruction
      Assemble(<<I("OpPush", 1)>>),
      \* a jump past the end
      Assemble(<<I("OpJump", 9), Op("OpTrue"), Op("OpReturn")>>),
      \* a jump to itself
      Assemble(<<I("OpJump", 0)>>),
      \* if (x) { leave 7 on the stack, return 8 } else { return what is on the stack }
      Assemble(<<Lookup(Text.x), I("OpJumpIfFalse", 13), I("OpPush", 7), I("OpPush", 8),
                 Op("OpReturn"), Op("OpReturn")>>),
      \* v = 5; return v
      Assemble(<<I("OpPush", 5), Const(String(Text.v)), Op("OpSet"), Lookup(Text.v),
                 Op("OpReturn")>>),
      \* return !x
      Assemble(<<Lookup(Text.x), Op("OpBang"), Op("OpReturn")>>),
      \* return !y
      Assemble(<<Lookup(Text.y), Op("OpBang"), Op("OpReturn")>>),
      \* return $x
      Assemble(<<Lookup(Text.dollar_x), Op("OpReturn")>>),
      \* $x = 5; return $x
      Assemble(<<I("OpPush", 5), Const(String(Text.dollar_x)), Op("OpSet"),
                 Lookup(Text.dollar_x), Op("OpReturn")>>),
      \* return !int("abc")
      Assemble(<<Const(String(Text.abc)), Const(String(Text.int)), I("OpCall", 1), Op("OpBang"),
                 Op("OpReturn")>>),
      \* return !match("ab", "b")
      Assemble(<<Const(String(Text.ab)), Const(String(Text.b)), Const(String(Text.match)),
                 I("OpCall", 2), Op("OpBang"), Op("OpReturn")>>),
      \* return !match("b", "ab")
      Assemble(<<Const(String(Text.b)), Const(String(Text.ab)), Const(String(Text.match)),
                 I("OpCall", 2), Op("OpBang"), Op("OpReturn")>>),
      \* 1 + true: a fault with a value left on the stack
      Assemble(<<I("OpPush", 4), I("OpPush", 1), Op("OpTrue"), Op("OpAdd"),
                 Op("OpReturn")>>),
      \* return v, after v = 5 and the fault of 1 + true
      Assemble(<<Lookup(Text.v), I("OpPush", 5), Const(String(Text.v)), Op("OpSet"),
                 I("OpPush", 1), Op("OpTrue"), Op("OpAdd"), Op("OpReturn")>>),
      \* return no(): a function the environment does not have
      Assemble(<<Const(String(Text.nofunc)), I("OpCall", 0), Op("OpReturn")>>),
      \* return !(x < y)
      Assemble(<<Lookup(Text.x), Lookup(Text.y), Op("OpLess"), Op("OpBang"), Op("OpReturn")>>)
    }
    \cup
    \* if (a) { return 1 } else { return 2 } for the arrays [], [0], [[]] and [7, 8]
    { Assemble(a \o <<I("OpJumpIfFalse", Len(Assemble(a)) + 7), I("OpPush", 1), Op("OpReturn"),
                       I("OpPush", 2), Op("OpReturn")>>) :
        a \in { <<I("OpArray", 0)>>, <<I("OpPush", 0), I("OpArray", 1)>>,
                <<I("OpArray", 0), I("OpArray", 1)>>,
                <<I("OpPush", 7), I("OpPush", 8), I("OpArray", 2)>> } }
    \cup
    \* an instruction that pops, after no PUSH and after one
    { Assemble(p \o <<I(op, 2), Op("OpReturn")>>) :
        p \in {<<>>, <<I("OpPush", 1)>>},
        op \in {"OpSet", "OpAdd", "OpMatches", "OpArray", "OpArrayIndex", "OpBang", "OpMinus",
                "OpRoot", "OpJumpIfFalse", "OpCall", "OpReturn"} }

\* the records of the model
Records ==
    { NilRecord,
      MapRecord(EmptyMap),
      MapRecord([k \in {Text.x} |-> HBool(FALSE)]),
      [kind |-> "struct",
       f |-> [k \in {Text.x, Text.y} |-> IF k = Text.x THEN HBool(TRUE) ELSE HOther("Struct")]],
      MapRecord([k \in {Text.x, Text.y} |-> IF k = Text.x THEN HInt("Int64", 0) ELSE HInt("Int8", 6)]),
      MapRecord([k \in {Text.x} |->
                     HV("Slice", 0, 1, <<>>, FALSE, <<HInt("Int", 7), HInt("Int16", 6)>>)]) }

(***************************************************************************)
(* The state machine.                                                      *)
(***************************************************************************)
InitWith(pools, programs, functions, goroutines) ==
    /\ constants \in pools
    /\ bytecode \in programs
    /\ vm = New
    /\ environment \in [vars : {EmptyMap}, funcs : functions]
    /\ proc = [regCache |-> EmptyMap, stdout |-> <<>>, stderr |-> <<>>, calls |-> <<>>]
    /\ obj = NilRecord
    /\ fresh = World(New, environment, proc)
    /\ runs = 0
    /\ build \in [zeroSizeEq : BOOLEAN]
    /\ threads \in goroutines
    /\ call = [fn |-> "none", args |-> <<>>, ret |-> <<>>]

Init == InitWith({Pool}, HandPrograms, {Builtins}, {<<>>})

Ended(state) == state \in {"Idle", "Returned", "Faulted"}

\* the world after w takes a step of Run, if it is running one
Stepped(w) == IF w.vm.state = "Running" THEN step(w, obj) ELSE w

\* the host calls vm.Run(o) on the VM; a VM that New has just built is started on
\* the same program, environment and record beside it
Run(o) ==
    /\ Ended(vm.state) /\ Ended(fresh.vm.state)
    /\ runs < MaxRuns
    /\ LET w == runStart(World(vm, environment, proc))
       IN  /\ vm' = w.vm
           /\ environment' = w.env
           /\ proc' = w.proc
    /\ fresh' = runStart(World(New, environment, proc))
    /\ obj' = o
    /\ runs' = runs + 1
    /\ UNCHANGED <<constants, bytecode, build, threads, call>>

\* the step leaves the VM in w and the VM built beside it in f
Becomes(w, f) ==
    /\ w.vm.state # "Beyond" /\ f.vm.state # "Beyond"
    /\ vm' = w.vm
    /\ environment' = w.env
    /\ proc' = w.proc
    /\ fresh' = f

\* Run tests ip < ln, and dispatches the instruction at ip or leaves the loop:
\* one step of the VM, and of the VM built beside it while that one runs (its
\* stack is a suffix of the other's, so it never outlives the other)
StepBoth ==
    /\ Becomes(Stepped(World(vm, environment, proc)), Stepped(fresh))
    /\ UNCHANGED <<constants, bytecode, obj, runs, build, threads, call>>

\* Run dispatches the instruction at ip
Dispatch ==
    /\ vm.state = "Running"
    /\ vm.ip < Len(bytecode)
    /\ vm.steps < MaxSteps
    /\ StepBoth

\* Run leaves the loop: ip is at or past the end of the bytecode
EndOfBytecode ==
    /\ vm.state = "Running"
    /\ vm.ip >= Len(bytecode)
    /\ StepBoth

\* the host sets a variable between two runs (Environment.Set)
HostSetVariable(name, val) ==
    /\ Ended(vm.state) /\ Ended(fresh.vm.state)
    /\ runs < MaxRuns
    /\ MapHas(environment.vars, name) => environment.vars[name] # val
    /\ environment' = [environment EXCEPT !.vars = MapPut(@, name, val)]
    /\ fresh' = [fresh EXCEPT !.env = environment']
    /\ UNCHANGED <<constants, bytecode, vm, proc, obj, runs, build, threads, call>>

Next ==
    \/ \E o \in Records : Run(o)
    \/ Dispatch
    \/ EndOfBytecode
    \/ \E val \in {Integer(3), False} : HostSetVariable(Text.x, val)

Spec == Init /\ [][Next]_vars

\* operators applied to operands: one run of each program, without a record
InitOperators == InitWith({Pool}, OperatorPrograms, {Builtins}, {<<>>})

NextOperators ==
    \/ vm.state = "Idle" /\ Run(NilRecord)
    \/ Dispatch

SpecOperators == InitOperators /\ [][NextOperators]_vars

\* match(s, s), s ~= t and s !~ t, for the strings s of up to MaxStrLen bytes
\* out of "a", space, newline and "(" and the expressions t "a", " a" and "(":
\* the constants are s, the name of the function and t.  The environment
\* is the one environment.New makes, or one without the function match.
InitMatch ==
    InitWith({ <<String(s), String(Text.match), String(t)>> :
                 s \in UNION {[1..n -> {97, 32, 10, 40}] : n \in 0..MaxStrLen},
                 t \in {<<97>>, <<32, 97>>, <<40>>} },
             { Assemble(<<I("OpConstant", 0), I("OpConstant", 0), I("OpConstant", 1),
                          I("OpCall", 2), Op("OpReturn")>>),
               Assemble(<<I("OpConstant", 0), I("OpConstant", 2), Op("OpMatches"),
                          Op("OpReturn")>>),
               Assemble(<<I("OpConstant", 0), I("OpConstant", 2), Op("OpNotMatches"),
                          Op("OpReturn")>>),
               \* s ~= t, twice: the second finds t in the cache
               Assemble(<<I("OpConstant", 0), I("OpConstant", 2), Op("OpMatches"),
                          I("OpConstant", 0), I("OpConstant", 2), Op("OpMatches"),
                          Op("OpReturn")>>) },
             { Builtins, [n \in DOMAIN Builtins \ {Text.match} |-> Builtins[n]] },
             {<<>>})

SpecMatch == InitMatch /\ [][NextOperators]_vars

\* Any bytes as the program: every sequence of up to MaxBytes bytes out of
\* CONSTANT (0), LOOKUP (1), JUMP (4), JUMP_IF_FALSE (5), RETURN and a byte
\* that is no opcode (255), the first four being operand bytes as well; and
\* JUMP 4; PUSH 1024; JUMP 9, where the jump leads into the operand of PUSH,
\* whose bytes are those of JUMP 4.  The constant pool has one constant.
InitBytes ==
    InitWith({ <<String(Text.x)>> },
             UNION { [1..n -> {0, 1, 4, 5, Opcode("OpReturn"), 255}] : n \in 0..MaxBytes }
                \cup { Assemble(<<I("OpJump", 4), I("OpPush", 1024), I("OpJump", 9)>>) },
             {Builtins}, {<<>>})

NextBytes ==
    \/ NextOperators
    \/ EndOfBytecode

SpecBytes == InitBytes /\ [][NextBytes]_vars

\* PUSH i; RETURN, for every operand i
InitPush ==
    InitWith({Pool}, { Assemble(<<I("OpPush", i), Op("OpReturn")>>) : i \in 0..MaxOperand },
             {Builtins}, {<<>>})

SpecPush == InitPush /\ [][NextOperators]_vars

\* One access to memory by the goroutine t inside fnMatch. Reading the map
\* regCache and storing into it are not atomic: each has a beginning and an
\* end. Go leaves open what a read or a store that overlaps a store does:
\* the read finds the entry or does not, and the runtime may stop the
\* process ("concurrent map read and map write", "concurrent map writes").
Advance(t) ==
    LET reg == threads[t].reg
        at == threads[t].pc
        racing == \E u \in DOMAIN threads : u # t /\ threads[u].pc = "storing"
        goto(pc) == threads' = [threads EXCEPT ![t].pc = pc]
    IN  /\ \A u \in DOMAIN threads : threads[u].pc # "fatal"
        /\ CASE at = "lookup" ->
                  goto("looking") /\ UNCHANGED proc
             [] at = "looking" ->
                  /\ \/ goto(IF MapHas(proc.regCache, reg) THEN "match" ELSE "compile")
                     \/ racing /\ goto("compile")
                     \/ racing /\ goto("fatal")
                  /\ UNCHANGED proc
             [] at = "compile" ->
                  IF RegexKind(reg) = "invalid"
                  THEN /\ goto("done")
                       /\ proc' = [proc EXCEPT !.stdout =
                                      @ \o <<73, 110, 118, 97, 108, 105, 100, 32>> \o reg]
                  ELSE goto("store") /\ UNCHANGED proc
             [] at = "store" ->
                  goto("storing") /\ UNCHANGED proc
             [] at = "storing" ->
                  \/ goto("match") /\ proc' = [proc EXCEPT !.regCache = MapPut(@, reg, reg)]
                  \/ racing /\ goto("fatal") /\ UNCHANGED proc
             [] at = "match" ->
                  goto("done") /\ UNCHANGED proc
             [] OTHER -> FALSE
        /\ UNCHANGED <<constants, bytecode, vm, environment, obj, fresh, runs, build, call>>

\* two VMs, each on a goroutine of its own, call match at the same time
InitRace ==
    InitWith({Pool}, {Assemble(<<Op("OpReturn")>>)}, {Builtins},
             [1..2 -> [pc : {"lookup"}, reg : {Text.ab, Text.b, <<40>>}]])

NextRace == \E t \in DOMAIN threads : Advance(t)

SpecRace == InitRace /\ [][NextRace]_vars

\* the integer operators on their own.  ADD, SUB and MUL of two Integer
\* objects push &object.Integer{Value: ...} and return nil whatever the
\* values are; MINUS of an Integer does the same.  One application is
\* looked at in each behaviour, for none depends on another
InitInt64 == InitWith({<<>>}, {<<>>}, {Builtins}, {<<>>})

NextInt64 ==
    \/ \E op \in {"OpAdd", "OpSub", "OpMul"}, l \in Int64Operands, r \in Int64Operands :
          /\ call.fn = "none"
          /\ call' = [fn |-> op, args |-> <<l, r>>,
                      ret |-> int64Infix(op, Wide(l[1], l[2]), Wide(r[1], r[2]))]
          /\ UNCHANGED <<constants, bytecode, vm, environment, proc, obj, fresh, runs,
                         build, threads>>
    \/ \E v \in Int64Operands :
          /\ call.fn = "none"
          /\ call' = [fn |-> "OpMinus", args |-> <<v>>, ret |-> int64Minus(Wide(v[1], v[2]))]
          /\ UNCHANGED <<constants, bytecode, vm, environment, proc, obj, fresh, runs,
                         build, threads>>

SpecInt64 == InitInt64 /\ [][NextInt64]_vars

\* FieldArgument.Value on its own: the host calls it with a record.  One
\* call is looked at in each behaviour, for none depends on another
InitField == InitWith({<<>>}, {<<>>}, {Builtins}, {<<>>})

NextField ==
    \E Field \in {Text.x, Text.y}, o \in FieldRecords :
        /\ call.fn = "none"
        /\ call' = [fn |-> "Value", args |-> <<Field, o>>, ret |-> Value(Field, o)]
        /\ UNCHANGED <<constants, bytecode, vm, environment, proc, obj, fresh, runs, build,
                       threads>>

SpecField == InitField /\ [][NextField]_vars

(***************************************************************************)
(* Properties.  They are stated over the state an instruction leaves: the  *)
(* instruction dispatched last is at vm.prev, vm.pre is the stack it found *)
(* and vm.stack the stack it left.                                         *)
(***************************************************************************)
MissingReturn == "missing return at the end of the script"

\* the instruction dispatched last in this run is one of ops, and the run has
\* not gone on to leave the loop
Last(ops) ==
    /\ vm.prev >= 0
    /\ OpAt(vm.prev) \in ops
    /\ ~(vm.state = "Faulted" /\ vm.err = MissingReturn)

\* the k-th value from the top of the stack the instruction found
Pre(k) == vm.pre[Len(vm.pre) + 1 - k]

\* the stack the instruction found, without its k topmost values
Below(k) == SubSeq(vm.pre, 1, Len(vm.pre) - k)

\* the canonical boolean of a truth value
Canonical(b) == IF b THEN True ELSE False

\* the instruction has gone on and has left v on what was below its k operands
Pushes(k, v) == vm.state = "Running" /\ vm.stack = Append(Below(k), v)

\* the instruction has ended the run with an error, its k operands popped and
\* nothing pushed
Faults(k) == vm.state = "Faulted" /\ vm.result = Nil /\ vm.stack = Below(k)

\* C1: Run yields a value only by executing RETURN, and the value is the one
\* RETURN popped; Run on an empty program returns an error and dispatches
\* nothing; and from any point of a run where the instruction pointer is at or
\* past the end of the bytecode, whether an instruction fell through or a jump
\* led there, Run returns the missing-return error and no value, dispatching
\* nothing more.
C1_ValueOnlyByReturn ==
    /\ [](vm.result # Nil <=> vm.state = "Returned")
    /\ [](vm.state = "Returned" =>
            Last({"OpReturn"}) /\ Len(vm.pre) >= 1 /\ vm.result = Pre(1))
    /\ [](Len(bytecode) = 0 /\ vm.state # "Idle" =>
            /\ vm.state = "Faulted" /\ vm.err = "the bytecode program is empty"
            /\ vm.result = Nil /\ vm.steps = 0)
    /\ [](vm.state # "Running" /\ Len(bytecode) > 0 /\ vm.ip >= Len(bytecode) =>
            vm.state = "Faulted" /\ vm.err = MissingReturn /\ vm.result = Nil)
    /\ [][vm.state = "Running" /\ vm.ip >= Len(bytecode) =>
            /\ vm'.state = "Faulted" /\ vm'.err = MissingReturn /\ vm'.result = Nil
            /\ vm'.steps = vm.steps]_vars

\* C1, its case: a jump has led past the end of the bytecode and Run has
\* returned the missing-return error
C1_JumpPastEnd ==
    /\ vm.state = "Faulted" /\ vm.err = MissingReturn /\ vm.result = Nil
    /\ vm.prev >= 0 /\ OpAt(vm.prev) = "OpJump" /\ OperandAt(vm.prev) >= Len(bytecode)

\* C2: a run that has ended has ended in one of two ways: Returned, with a
\* value and no error, or Faulted, with an error and no value.
C2_TwoOutcomes ==
    vm.state \notin {"Idle", "Running"} =>
        \/ vm.state = "Returned" /\ vm.result # Nil /\ vm.err = "nil"
        \/ vm.state = "Faulted" /\ vm.result = Nil /\ vm.err # "nil"

\* the name a LOOKUP instruction at ip looks up, its leading "$" removed
LookupName(ip) == TrimDollar(Inspect(constants[OperandAt(ip) + 1]))

\* what the name n stands for: the variable, else the field of the record, else Null
Resolved(n) ==
    IF MapHas(environment.vars, n) THEN environment.vars[n]
    ELSE IF n \in DOMAIN obj.f THEN FieldObject(obj.f[n])
    ELSE Null

\* C3: LOOKUP of a name pushes exactly one value: the environment's variable of
\* that name if there is one, even when the record has a field of that name;
\* otherwise the record's field; otherwise Null.  Without a record every name
\* that is no variable gives Null, and the LOOKUP does not end the run.
C3_LookupOrder ==
    Last({"OpLookup"}) =>
        /\ vm.state = "Running" => vm.stack = Append(vm.pre, Resolved(LookupName(vm.prev)))
        /\ obj.kind = "nil" =>
            /\ vm.state = "Running"
            /\ ~MapHas(environment.vars, LookupName(vm.prev)) =>
                    vm.stack = Append(vm.pre, Null)

\* C3, its case: the name is a variable and a field of the record, and the
\* variable's value was pushed
C3_VariableShadowsField ==
    /\ Last({"OpLookup"}) /\ vm.state = "Running"
    /\ LookupName(vm.prev) = Text.x
    /\ MapHas(environment.vars, Text.x) /\ Text.x \in DOMAIN obj.f
    /\ environment.vars[Text.x] # FieldObject(obj.f[Text.x])
    /\ vm.stack = Append(vm.pre, environment.vars[Text.x])

\* C4: a run on a VM that has completed runs before ends as the run of a VM
\* that New has just built for the same constants, bytecode, environment and
\* record: the same outcome, the same value, the same error.
C4_RerunLikeFresh ==
    vm.state \in {"Returned", "Faulted"} =>
        /\ fresh.vm.state = vm.state
        /\ fresh.vm.result = vm.result
        /\ fresh.vm.err = vm.err

\* C5: with two operands of any types on the stack, AND pushes canonical false
\* if the left one is not truthy and else the truthiness of the right one, OR
\* pushes canonical true if the left one is truthy and else the truthiness of
\* the right one, and neither ends the run.
C5_AndOrAnyTypes ==
    Last({"OpAnd", "OpOr"}) /\ Len(vm.pre) >= 2 =>
        Pushes(2, IF OpAt(vm.prev) = "OpAnd"
                  THEN Canonical(IsTrue(Pre(2)) /\ IsTrue(Pre(1)))
                  ELSE Canonical(IsTrue(Pre(2)) \/ IsTrue(Pre(1))))

\* the logical negation of a value: of a Boolean by its value, true of Null,
\* false of anything else
Negation(v) ==
    CASE v.t = "BOOLEAN" -> Canonical(~v.b)
      [] v.t = "NULL" -> True
      [] OTHER -> False

\* C6: BANG pops one value and pushes its logical negation by value, however
\* the operand came to be on the stack.
C6_BangByValue ==
    Last({"OpBang"}) /\ Len(vm.pre) >= 1 => Pushes(1, Negation(Pre(1)))

\* C7: ARRAY_INDEX on a String s and an Integer i never ends the run: it pushes
\* Null for i < 0 and for i >= len(s), and the string of the byte at offset i
\* otherwise.
C7_StringIndex ==
    Last({"OpArrayIndex"}) /\ Len(vm.pre) >= 2
        /\ Pre(2).t = "STRING" /\ Pre(1).t = "INTEGER" =>
        Pushes(2, IF Pre(1).n < 0 \/ Pre(1).n >= Len(Pre(2).s) THEN Null
                  ELSE String(<<Pre(2).s[Pre(1).n + 1]>>))

\* C8: ARRAY_INDEX on an Array a and an Integer i pushes element i of a for
\* 0 <= i < len(a) and Null, without an error, for every other i; with a
\* container that is neither Array nor String, or an index that is no Integer,
\* it ends the run with an error and pushes nothing.
C8_ArrayIndex ==
    Last({"OpArrayIndex"}) /\ Len(vm.pre) >= 2 =>
        /\ Pre(2).t = "ARRAY" /\ Pre(1).t = "INTEGER" =>
            Pushes(2, IF 0 <= Pre(1).n /\ Pre(1).n < Len(Pre(2).e)
                      THEN Pre(2).e[Pre(1).n + 1] ELSE Null)
        /\ Pre(2).t \notin {"ARRAY", "STRING"} \/ Pre(1).t # "INTEGER" => Faults(2)

\* C8, its case: the index is the length of a non-empty array, and Null was pushed
C8_IndexAtLength ==
    /\ Last({"OpArrayIndex"}) /\ Len(vm.pre) >= 2
    /\ Pre(2).t = "ARRAY" /\ Pre(1).t = "INTEGER"
    /\ Len(Pre(2).e) > 0 /\ Pre(1).n = Len(Pre(2).e)
    /\ Pushes(2, Null)

Numeric(v) == v.t \in {"INTEGER", "FLOAT"}

\* C9: DIV of an Integer or a Float by an Integer or a Float that is zero ends
\* the run with the division-by-zero error and pushes nothing.
C9_DivisionByZero ==
    Last({"OpDiv"}) /\ Len(vm.pre) >= 2
        /\ Numeric(Pre(2)) /\ Numeric(Pre(1)) /\ Pre(1).n = 0 =>
        Faults(2) /\ vm.err = "division by zero"

\* C9, its case: an Integer was divided by the Float zero
C9_IntegerByFloatZero ==
    /\ Last({"OpDiv"}) /\ Len(vm.pre) >= 2
    /\ Pre(2).t = "INTEGER" /\ Pre(1).t = "FLOAT" /\ Pre(1).n = 0
    /\ Faults(2) /\ vm.err = "division by zero"

CompareOps ==
    {"OpLess", "OpLessEqual", "OpGreater", "OpGreaterEqual", "OpEqual", "OpNotEqual"}

\* the comparison op of two strings, in byte order
Compared(op, l, r) ==
    CASE op = "OpLess" -> StrLess(l, r)
      [] op = "OpLessEqual" -> ~StrLess(r, l)
      [] op = "OpGreater" -> StrLess(r, l)
      [] op = "OpGreaterEqual" -> ~StrLess(l, r)
      [] op = "OpEqual" -> l = r
      [] op = "OpNotEqual" -> l # r

\* the canonical boolean of the comparison of the two operands' inspect strings
\* was pushed
PushesCompared ==
    Pushes(2, Canonical(Compared(OpAt(vm.prev), Inspect(Pre(2)), Inspect(Pre(1)))))

\* C10, as the specification has it: a comparison or equality operator on two
\* Booleans, two Arrays or two Nulls does not end the run and pushes the
\* canonical boolean of the comparison of their inspect strings.
C10_SameTypeCompare ==
    Last(CompareOps) /\ Len(vm.pre) >= 2
        /\ Pre(2).t = Pre(1).t /\ Pre(1).t \in {"BOOLEAN", "ARRAY", "NULL"} =>
        PushesCompared

\* C10, as the code has it: a comparison or equality operator on two Booleans
\* does not end the run and pushes the canonical boolean of the comparison of
\* their inspect strings; on two Arrays or two Nulls it ends the run with the
\* unknown-operator error and pushes nothing.
C10_BooleanCompare ==
    Last(CompareOps) /\ Len(vm.pre) >= 2 /\ Pre(2).t = Pre(1).t =>
        /\ Pre(1).t = "BOOLEAN" => PushesCompared
        /\ Pre(1).t \in {"ARRAY", "NULL"} => Faults(2) /\ vm.err = "unknown operator"

\* C10, its case: false < true has pushed true
C10_FalseLessTrue ==
    /\ Last({"OpLess"}) /\ Len(vm.pre) >= 2
    /\ Pre(2) = False /\ Pre(1) = True
    /\ Pushes(2, True)

\* C11: a binary operator other than AND and OR on two operands of different
\* types ends the run with the type-mismatch error and pushes nothing, unless
\* one operand is an Integer and the other a Float: that pairing never ends
\* with the type-mismatch error.
C11_TypeMismatch ==
    Last(BinaryOps \ {"OpAnd", "OpOr"}) /\ Len(vm.pre) >= 2 /\ Pre(2).t # Pre(1).t =>
        IF Numeric(Pre(2)) /\ Numeric(Pre(1))
        THEN vm.err # "type mismatch"
        ELSE Faults(2) /\ vm.err = "type mismatch"

\* C11, its case: a String was compared with an Integer
C11_StringLessInteger ==
    /\ Last({"OpLess"}) /\ Len(vm.pre) >= 2
    /\ Pre(2).t = "STRING" /\ Pre(1).t = "INTEGER"
    /\ Faults(2) /\ vm.err = "type mismatch"

\* C12: within one run a record is reflected at most once, whatever it
\* contains: inspectObject is called at most once per run on a record that is
\* not nil.
C12_ReflectedOnce == obj.kind # "nil" => vm.inspected <= 1

\* C13: CALL n, with the name and n arguments on the stack, calls the function
\* registered under the name exactly once, with the arguments in the order
\* they were pushed, and leaves one value in place of the name and the
\* arguments: the stack is n shorter.  If no function is registered under the
\* name, the run ends with the unknown-function error and nothing is called.
C13_Call ==
    [][vm.state = "Running" /\ vm.ip + 3 <= Len(bytecode) /\ OpAt(vm.ip) = "OpCall"
         /\ Len(vm.stack) >= OperandAt(vm.ip) + 1 =>
            LET n == OperandAt(vm.ip)
                depth == Len(vm.stack)
                name == Inspect(vm.stack[depth])
            IN  IF name \in DOMAIN environment.funcs
                THEN /\ vm'.state = "Running"
                     /\ proc'.calls =
                            Append(proc.calls,
                                   [fn |-> environment.funcs[name],
                                    args |-> SubSeq(vm.stack, depth - n, depth - 1)])
                     /\ Len(vm'.stack) = depth - n
                     /\ SubSeq(vm'.stack, 1, depth - n - 1) =
                            SubSeq(vm.stack, 1, depth - n - 1)
                ELSE /\ vm'.state = "Faulted" /\ vm'.result = Nil
                     /\ vm'.err = "the function does not exist"
                     /\ proc'.calls = proc.calls]_vars

\* C13, its case: a function was called with two different arguments, the
\* one pushed first at position 0
C13_TwoArguments ==
    /\ Last({"OpCall"}) /\ OperandAt(vm.prev) = 2 /\ Len(vm.pre) >= 3
    /\ vm.state = "Running" /\ Len(vm.stack) = Len(vm.pre) - 2
    /\ proc.calls # <<>>
    /\ proc.calls[Len(proc.calls)].args = <<Pre(3), Pre(2)>>
    /\ Pre(3) # Pre(2)

\* a SET instruction is about to be dispatched with its two operands on the stack
Setting ==
    /\ vm.state = "Running" /\ vm.ip < Len(bytecode) /\ OpAt(vm.ip) = "OpSet"
    /\ Len(vm.stack) >= 2

\* C14: a variable written under a name without a leading "$", by the host
\* between runs or by SET, is what every later LOOKUP of the name pushes, in
\* that run and in the runs after it, until it is written again: LOOKUP pushes
\* the variable's value, SET writes the value under the name, and no other
\* step of the VM, the start of a run and the end of a run with an error
\* included, changes a variable.
C14_VariablesPersist ==
    /\ [](Last({"OpLookup"}) /\ vm.state = "Running"
            /\ ~HasPrefix(Inspect(constants[OperandAt(vm.prev) + 1]), <<36>>)
            /\ MapHas(environment.vars, LookupName(vm.prev)) =>
                vm.stack = Append(vm.pre, environment.vars[LookupName(vm.prev)]))
    /\ [][Setting =>
            environment'.vars =
                MapPut(environment.vars, Inspect(vm.stack[Len(vm.stack)]),
                       vm.stack[Len(vm.stack) - 1])]_vars
    /\ [][vm' # vm /\ ~Setting => environment'.vars = environment.vars]_vars

\* C14, its case: the first instruction of a second run looks up the variable
\* that a SET of the first run wrote before that run ended with an error
C14_SetSurvivesFault ==
    /\ runs = 2 /\ vm.prev = 0 /\ vm.steps = 1 /\ Last({"OpLookup"})
    /\ LookupName(0) = Text.v
    /\ Len(bytecode) > 9 /\ OpAt(9) = "OpSet"
    /\ vm.stack = Append(vm.pre, Integer(5))

\* match has just been called through CALL 2 and has returned
Matched == Last({"OpCall"}) /\ OperandAt(vm.prev) = 2 /\ Len(vm.pre) >= 3 /\ vm.state = "Running"

\* the Boolean b, whichever object holds it, is on top of the stack
TopIsBoolean(b) ==
    /\ vm.stack # <<>>
    /\ vm.stack[Len(vm.stack)].t = "BOOLEAN"
    /\ vm.stack[Len(vm.stack)].b = b

\* s has neither a newline nor white space at its ends
Plain(s) == TrimSpace(s) = s /\ ~Has(s, 10)

\* C15, as the specification has it: for every string s without a
\* metacharacter of regular expressions, match(s, s) returns Boolean true.
C15_MatchSelf ==
    Matched /\ Pre(3) = Pre(2) /\ IsLiteral(Pre(2).s) => TopIsBoolean(TRUE)

\* C15, as the code has it: for a string s without a metacharacter,
\* match(s, s) returns Boolean true if s has neither a newline nor white
\* space at its ends, and Boolean false otherwise.
C15_MatchSelfPlain ==
    Matched /\ Pre(3) = Pre(2) /\ IsLiteral(Pre(2).s) => TopIsBoolean(Plain(Pre(2).s))

\* C15, its case: a string with a space inside, and none at its ends, has
\* matched itself
C15_InnerSpace ==
    /\ Matched /\ Pre(3) = Pre(2)
    /\ Pre(2).s = <<97, 32, 97>>
    /\ TopIsBoolean(TRUE)

\* C17: match with a pattern that is no valid regular expression returns
\* Boolean false, writes a diagnostic to standard error and nothing to
\* standard output, and leaves the cache of compiled expressions as it was.
C17_InvalidPattern ==
    Matched /\ RegexKind(Pre(2).s) = "invalid" /\ runs = 1 =>
        /\ TopIsBoolean(FALSE)
        /\ proc.stderr # <<>>
        /\ proc.stdout = <<>>
        /\ proc.regCache = EmptyMap

\* C16: no store into the cache of regular expressions is under way while
\* another goroutine stores into the cache or reads it.
C16_CacheSynchronised ==
    \A t, u \in DOMAIN threads :
        t # u /\ threads[t].pc = "storing" => threads[u].pc \notin {"storing", "looking"}

\* C18: a field that was reflected, of a map or of a struct, became Integer
\* if its type is an integer of any width, signed or unsigned, Float if it
\* is a float of any width, String if it is a string and Boolean if it is
\* a bool.
C18_EveryWidth ==
    \A k \in DOMAIN obj.f \cap DOMAIN vm.fields :
        LET h == obj.f[k]
        IN  /\ h.k \in {"Int", "Int8", "Int16", "Int32", "Int64",
                        "Uint", "Uint8", "Uint16", "Uint32", "Uint64"}
                  => vm.fields[k] = Integer(h.n)
            /\ h.k \in {"Float32", "Float64"} => vm.fields[k] = Float(h.n, h.d)
            /\ h.k = "String" => vm.fields[k] = String(h.s)
            /\ h.k = "Bool" => vm.fields[k] = Boolean(h.b)

\* C19: reflection never ends the process, and once a record was reflected
\* every field of it has a value: an Array of as many elements as the
\* slice has for a slice, each element of an unsupported type being Null.
C19_ReflectionCompletes ==
    /\ vm.state # "Exited"
    /\ vm.inspected >= 1 /\ obj.kind # "nil" =>
          \A k \in DOMAIN obj.f :
              /\ k \in DOMAIN vm.fields
              /\ obj.f[k].k = "Slice" =>
                    /\ vm.fields[k].t = "ARRAY"
                    /\ Len(vm.fields[k].e) = Len(obj.f[k].el)

\* C20: the program PUSH i; RETURN, the operand i being the two bytes after
\* the opcode with the high byte first, run on a VM that has not run yet,
\* ends in no error and returns Integer(i).
C20_PushReturns ==
    /\ vm.state \in {"Idle", "Running", "Returned"}
    /\ vm.state = "Returned" => vm.result = Integer(bytecode[2] * 256 + bytecode[3])

\* C20, its case: the largest operand was pushed and returned
C20_LargestOperand ==
    /\ bytecode = <<Opcode("OpPush"), 255, 255, Opcode("OpReturn")>>
    /\ vm.state = "Returned"
    /\ vm.result = Integer(MaxOperand)

\* C21: after JUMP t the instruction pointer is t, for every t, 0 included;
\* JUMP_IF_FALSE t pops one value and leaves the instruction pointer at t if
\* the value is not truthy and just after itself otherwise; every other
\* instruction that does not end the run leaves the instruction pointer at
\* its own offset plus its length.
C21_NextInstruction ==
    vm.prev >= 0 /\ vm.state = "Running" =>
        vm.ip = CASE OpAt(vm.prev) = "OpJump" -> OperandAt(vm.prev)
                  [] OpAt(vm.prev) = "OpJumpIfFalse" ->
                        IF IsTrue(Pre(1)) THEN vm.prev + 3 ELSE OperandAt(vm.prev)
                  [] OTHER -> vm.prev + Length(bytecode[vm.prev + 1])

\* C21, its case: a JUMP_IF_FALSE has branched on a value that is not truthy
C21_Branched ==
    /\ Last({"OpJumpIfFalse"}) /\ vm.state = "Running"
    /\ ~IsTrue(Pre(1))
    /\ vm.ip = 13

\* the number of values the instruction at offset ip pops
Pops(ip) ==
    CASE OpAt(ip) \in BinaryOps \cup {"OpSet", "OpArrayIndex"} -> 2
      [] OpAt(ip) \in {"OpBang", "OpMinus", "OpRoot", "OpJumpIfFalse", "OpReturn"} -> 1
      [] OpAt(ip) = "OpArray" /\ ip + 3 <= Len(bytecode) -> OperandAt(ip)
      [] OpAt(ip) = "OpCall" /\ ip + 3 <= Len(bytecode) -> OperandAt(ip) + 1
      [] OTHER -> 0

\* C22: an instruction dispatched with fewer values on the stack than it pops
\* ends the run with the stack-underflow error and no value, and pushes
\* nothing; the step writes no variable and calls no function.
C22_Underflow ==
    /\ [](vm.prev >= 0 /\ ~(vm.state = "Faulted" /\ vm.err = MissingReturn)
            /\ Len(vm.pre) < Pops(vm.prev) =>
                /\ vm.state = "Faulted" /\ vm.err = "stack underflow" /\ vm.result = Nil
                /\ Len(vm.stack) <= Len(vm.pre))
    /\ [][vm.state = "Running" /\ vm.ip < Len(bytecode) /\ Len(vm.stack) < Pops(vm.ip) =>
            /\ environment' = environment
            /\ proc' = proc]_vars

\* C22, its case: SET has found one value on the stack
C22_SetWithOneValue ==
    /\ Last({"OpSet"}) /\ Len(vm.pre) = 1
    /\ vm.state = "Faulted"
    /\ environment.vars = EmptyMap

\* C23: ARRAY n pops n values and pushes one Array of them in the order they
\* were pushed, the value pushed last being the last element; ARRAY 0 pops
\* nothing and pushes an empty Array.  The depth of the stack changes by 1 - n.
C23_ArrayInOrder ==
    Last({"OpArray"}) /\ Len(vm.pre) >= OperandAt(vm.prev) =>
        /\ Pushes(OperandAt(vm.prev),
                  Array([i \in 1..OperandAt(vm.prev) |->
                            vm.pre[Len(vm.pre) - OperandAt(vm.prev) + i]]))
        /\ Len(vm.stack) = Len(vm.pre) + 1 - OperandAt(vm.prev)

\* C23, its case: ARRAY 2 has found 7 and, above it, 8
C23_SevenEight ==
    /\ Last({"OpArray"}) /\ OperandAt(vm.prev) = 2
    /\ vm.pre = <<Integer(7), Integer(8)>>
    /\ vm.stack = <<Array(<<Integer(7), Integer(8)>>)>>

\* the instructions of which C24 speaks
BooleanOps ==
    CompareOps \cup {"OpMatches", "OpNotMatches", "OpAnd", "OpOr", "OpBang", "OpTrue", "OpFalse"}

\* C24: a comparison, an equality test, MATCHES, NOT_MATCHES, AND, OR, BANG,
\* TRUE or FALSE that does not end the run has pushed one of the two
\* canonical booleans; BANG on a canonical boolean pushes its negation, so
\* that BANG, BANG after TRUE (and a NOP) leaves what the literal pushed.
C24_CanonicalBooleans ==
    /\ Last(BooleanOps) /\ vm.state = "Running" =>
          /\ vm.stack # <<>>
          /\ vm.stack[Len(vm.stack)] \in {True, False}
    /\ Last({"OpBang"}) /\ Len(vm.pre) >= 1 /\ Pre(1) \in {True, False} =>
          Pushes(1, Canonical(~Pre(1).b))
    /\ Last({"OpBang"}) /\ vm.prev = 3 /\ vm.steps = 4 /\ OpAt(2) = "OpBang"
          /\ OpAt(1) = "OpNop" /\ OpAt(0) \in {"OpTrue", "OpFalse"} =>
          Pushes(1, Canonical(OpAt(0) = "OpTrue"))

\* C24, its case: BANG, twice, after 2 < 3
C24_NotNotLess ==
    /\ Last({"OpBang"}) /\ vm.steps = 5 /\ vm.prev = 8
    /\ OpAt(7) = "OpBang" /\ OpAt(6) = "OpLess"
    /\ vm.pre = <<False>>
    /\ vm.stack = <<True>>

\* match(left, right) returns Boolean true
MatchReturnsTrue(left, right) ==
    fnMatch(World(vm, environment, proc), <<left, right>>).ret = Boolean(TRUE)

\* C25: on two Strings, with match registered, MATCHES pushes the canonical
\* true exactly when match(left, right) returns Boolean true and NOT_MATCHES
\* pushes the opposite canonical boolean; with no function match in the
\* environment both end the run with an error.
C25_MatchesDelegates ==
    Last({"OpMatches", "OpNotMatches"}) /\ Len(vm.pre) >= 2
        /\ Pre(2).t = "STRING" /\ Pre(1).t = "STRING" =>
        IF Text.match \in DOMAIN environment.funcs
        THEN Pushes(2, Canonical(MatchReturnsTrue(Pre(2), Pre(1)) = (OpAt(vm.prev) = "OpMatches")))
        ELSE Faults(2) /\ vm.err = "failed to lookup match-function"

\* C25, its case: " a" !~ " a" has pushed true, the line being trimmed and
\* the expression not
C25_PaddedNotMatches ==
    /\ Last({"OpNotMatches"})
    /\ vm.pre = <<String(<<32, 97>>), String(<<32, 97>>)>>
    /\ vm.stack = <<True>>

\* C26: the map of the fields holds nothing but fields of the record of the
\* current run, with the values reflection gives them; so a LOOKUP, in a
\* second run as in the first, of a name that is no variable and no field of
\* the current record pushes Null, whatever the records of earlier runs had.
C26_NoLeak ==
    /\ \A k \in DOMAIN vm.fields :
          k \in DOMAIN obj.f /\ vm.fields[k] = FieldObject(obj.f[k])
    /\ Last({"OpLookup"}) /\ vm.state = "Running"
          /\ ~MapHas(environment.vars, LookupName(vm.prev))
          /\ LookupName(vm.prev) \notin DOMAIN obj.f =>
          Pushes(0, Null)

\* C26, its case: in a second run, with a record that has the field x and
\* no field y, LOOKUP y has pushed Null
C26_SecondRunMissingField ==
    /\ runs = 2
    /\ Last({"OpLookup"}) /\ LookupName(vm.prev) = Text.y
    /\ DOMAIN obj.f = {Text.x}
    /\ vm.fields # EmptyMap
    /\ vm.stack # <<>> /\ vm.stack[Len(vm.stack)] = Null

\* C27: JUMP_IF_FALSE on an Array branches if the Array has no element and
\* falls through if it has one or more, whatever the elements are.
C27_ArrayTruthy ==
    Last({"OpJumpIfFalse"}) /\ Len(vm.pre) >= 1 /\ Pre(1).t = "ARRAY" =>
        /\ vm.state = "Running" /\ vm.stack = Below(1)
        /\ vm.ip = IF Len(Pre(1).e) = 0 THEN OperandAt(vm.prev) ELSE vm.prev + 3

\* C27, its case: JUMP_IF_FALSE has fallen through on [0]
C27_ArrayOfZero ==
    /\ Last({"OpJumpIfFalse"})
    /\ vm.pre = <<Array(<<Integer(0)>>)>>
    /\ vm.ip = vm.prev + 3

\* C29: MOD of an Integer or a Float by an Integer or a Float whose integer
\* part is zero ends the run with an error value, as DIV by zero does, and
\* not with a fault of the arithmetic that nothing handles.
C29_ModByZero ==
    Last({"OpMod"}) /\ Len(vm.pre) >= 2
        /\ Numeric(Pre(2)) /\ Numeric(Pre(1)) /\ GoQuo(Pre(1).n, Pre(1).d) = 0 =>
        Faults(2) /\ vm.err # "nil"

JumpOps == {"OpJump", "OpJumpIfFalse"}

\* the bytecode, read instruction after instruction from offset p on, is made
\* of whole instructions, and the operand of each jump among them is greater
\* than the jump's offset
RECURSIVE ForwardFrom(_)
ForwardFrom(p) ==
    IF p >= Len(bytecode) THEN TRUE
    ELSE /\ p + Length(bytecode[p + 1]) <= Len(bytecode)
         /\ OpAt(p) \in JumpOps => OperandAt(p) > p
         /\ ForwardFrom(p + Length(bytecode[p + 1]))

\* wherever in the bytecode the opcode of a jump stands before two more
\* bytes, at the start of an instruction or inside one, the operand read
\* there is greater than the offset
ForwardEverywhere ==
    \A p \in 0..(Len(bytecode) - 3) : OpAt(p) \in JumpOps => OperandAt(p) > p

C30_MalformedPrograms ==
    /\ vm.state \in {"Idle", "Running", "Returned", "Faulted"}
    /\ vm.prev >= 0 /\ vm.steps >= 1 /\ Length(bytecode[vm.prev + 1]) = 3
          /\ vm.prev + 3 > Len(bytecode) => Faults(0)
    /\ Last({"OpConstant", "OpLookup"}) /\ vm.prev + 3 <= Len(bytecode)
          /\ OperandAt(vm.prev) >= Len(constants) => Faults(0)

\* the name the LOOKUP at offset ip carries, as the constant has it
RawName(ip) == Inspect(constants[OperandAt(ip) + 1])

\* C31: SET stores the value under the name as it is; a LOOKUP of a name
\* under which a value is stored pushes that value if the name does not
\* begin with "$", and if it does, pushes what the name without its first
\* "$" stands for: the variable of that name, else the field, else Null.
C31_SetThenLookup ==
    /\ [](Last({"OpLookup"}) /\ vm.state = "Running"
            /\ MapHas(environment.vars, RawName(vm.prev)) =>
            IF RawName(vm.prev)[1] # 36
            THEN Pushes(0, environment.vars[RawName(vm.prev)])
            ELSE Pushes(0, Resolved(Tail(RawName(vm.prev)))))
    /\ [][Setting =>
            /\ MapHas(environment'.vars, Inspect(vm.stack[Len(vm.stack)]))
            /\ environment'.vars[Inspect(vm.stack[Len(vm.stack)])] =
                   vm.stack[Len(vm.stack) - 1]]_vars

\* C31, its case: 5 is stored under "$x", and LOOKUP "$x" has pushed Null,
\* there being no variable and no field x
C31_DollarNameNotRead ==
    /\ Last({"OpLookup"}) /\ RawName(vm.prev) = Text.dollar_x
    /\ MapHas(environment.vars, Text.dollar_x)
    /\ environment.vars[Text.dollar_x] = Integer(5)
    /\ vm.stack # <<>> /\ vm.stack[Len(vm.stack)] = Null

\* match(left, right) returns Boolean true when it finds the cache empty
MatchesUncached(left, right) ==
    fnMatch(World(vm, environment, [proc EXCEPT !.regCache = EmptyMap]),
            <<left, right>>).ret = Boolean(TRUE)

\* C32: every entry of the cache of regular expressions maps an expression
\* to what was compiled from that very expression, and none is of an
\* expression that does not compile; no step removes or replaces an entry;
\* and MATCHES pushes what match returns on an empty cache, whether the
\* expression was in the cache or not.
C32_CacheSound ==
    /\ [](\A k \in DOMAIN proc.regCache :
            proc.regCache[k] = k /\ RegexKind(k) # "invalid")
    /\ [](Last({"OpMatches"}) /\ vm.state = "Running" /\ Len(vm.pre) >= 2
            /\ Pre(2).t = "STRING" /\ Pre(1).t = "STRING" =>
            Pushes(2, Canonical(MatchesUncached(Pre(2), Pre(1)))))
    /\ [][\A k \in DOMAIN proc.regCache :
            MapHas(proc'.regCache, k) /\ proc'.regCache[k] = proc.regCache[k]]_vars

\* C32, its case: the second "a" ~= "a" of a run has found the expression
\* in the cache and has pushed true
C32_SecondMatchCached ==
    /\ Last({"OpMatches"}) /\ vm.prev = 13 /\ vm.steps = 6
    /\ Pre(1) = String(<<97>>) /\ Pre(2) = String(<<97>>)
    /\ proc.regCache = MapPut(EmptyMap, <<97>>, <<97>>)
    /\ Len(proc.calls) = 2
    /\ vm.stack = <<True, True>>

\* the int64 bytes of the two ends of int64
MaxInt64 == <<255, 255, 255, 255, 255, 255, 255, 127>>
MinInt64 == <<0, 0, 0, 0, 0, 0, 0, 128>>

\* C33: ADD, SUB, MUL and MINUS of Integer objects always push a value, and
\* it is the mathematical result modulo 2^64 as a two's complement int64.
\* With the operands c1 * 2^63 + k1 and c2 * 2^63 + k2 the sum is
\* (c1 + c2) * 2^63 + (k1 + k2), the difference (c1 - c2) * 2^63 + (k1 - k2),
\* the product (c1 * k2 + c2 * k1) * 2^63 + k1 * k2 (2^126 is 0 modulo 2^64)
\* and the negation -c1 * 2^63 - k1.  So 9223372036854775807 + 1 and the
\* negation of -9223372036854775808 are both -9223372036854775808.
C33_WrapsAround ==
    /\ call.fn = "OpAdd" =>
          call.ret = Wide(call.args[1][1] + call.args[2][1], call.args[1][2] + call.args[2][2])
    /\ call.fn = "OpSub" =>
          call.ret = Wide(call.args[1][1] - call.args[2][1], call.args[1][2] - call.args[2][2])
    /\ call.fn = "OpMul" =>
          call.ret = Wide(call.args[1][1] * call.args[2][2] + call.args[2][1] * call.args[1][2],
                          call.args[1][2] * call.args[2][2])
    /\ call.fn = "OpMinus" => call.ret = Wide(-call.args[1][1], -call.args[1][2])
    /\ call.fn = "OpAdd" /\ call.args = <<(<<1, -1>>), <<0, 1>>>> =>
          Wide(1, -1) = MaxInt64 /\ Wide(0, 1) = <<1, 0, 0, 0, 0, 0, 0, 0>> /\ call.ret = MinInt64
    /\ call.fn = "OpMinus" /\ call.args = <<(<<1, 0>>)>> =>
          Wide(1, 0) = MinInt64 /\ call.ret = MinInt64
    /\ call.fn = "OpMul" /\ call.args = <<(<<0, -1>>), <<1, 0>>>> =>
          Wide(0, -1) = <<255, 255, 255, 255, 255, 255, 255, 255>> /\ call.ret = MinInt64
    /\ call.fn = "OpSub" /\ call.args = <<(<<1, 0>>), <<0, 1>>>> => call.ret = MaxInt64

\* C33, its case: 9223372036854775807 + 1 was added and the sum pushed is
\* -9223372036854775808
C33_MaxPlusOne ==
    /\ call.fn = "OpAdd"
    /\ call.args = <<(<<1, -1>>), <<0, 1>>>>
    /\ call.ret = MinInt64

\* the field Value was asked for, in the record it was given
Asked == call.args[2].f[call.args[1]]

\* C34: FieldArgument.Value returns the int64 of an int or int64 field, the
\* float of a float32 or float64 field, the string of a string field,
\* "true" or "false" for a bool field, and nil for a field that is missing
\* from the record or of any other type; and it leaves the record and the
\* evaluator as they were.
C34_ValueOfField ==
    call.fn = "Value" =>
        /\ call.ret.k # "panic"
        /\ call.args[1] \notin DOMAIN call.args[2].f => call.ret.k = "nil"
        /\ call.args[1] \in DOMAIN call.args[2].f =>
              CASE Asked.k \in {"Int", "Int64"} -> call.ret = HInt("Int64", Asked.n)
                [] Asked.k \in {"Float32", "Float64"} ->
                      call.ret = HV("Float64", Asked.n, Asked.d, <<>>, FALSE, <<>>)
                [] Asked.k = "String" -> call.ret = HV("String", 0, 1, Asked.s, FALSE, <<>>)
                [] Asked.k = "Bool" ->
                      call.ret.k = "String"
                      /\ call.ret.s = (IF Asked.b THEN <<116, 114, 117, 101>>
                                       ELSE <<102, 97, 108, 115, 101>>)
                [] OTHER -> call.ret.k = "nil"
        /\ vm = New /\ obj = NilRecord /\ environment.vars = EmptyMap
====
